---- MODULE Spec2Model ----
(***************************************************************************)
(* Hinted compilation of NUITKA-Utilities: the trace analyzer of           *)
(* hinted-compilation/get-hints.py (reader, call_analyzer, clean_json,     *)
(* myexit) and the module-inclusion policy of                              *)
(* hinted-compilation/hinted-mods.py (get_checklist, check_dependents,     *)
(* HintedModsPlugin.onModuleEncounter).                                    *)
(*                                                                         *)
(* Python str values are TLA+ strings; Len, SubSeq, Head, Tail and \o act   *)
(* on them character by character.  File paths follow posixpath.           *)
(***************************************************************************)
EXTENDS Integers, Sequences, FiniteSets, TLC

(***************************************************************************)
(* Python str methods                                                      *)
(***************************************************************************)

\* s.startswith(p)
StartsWith(s, p) == Len(p) <= Len(s) /\ SubSeq(s, 1, Len(p)) = p

\* s.endswith(p)
EndsWith(s, p) == Len(p) <= Len(s) /\ SubSeq(s, Len(s) - Len(p) + 1, Len(s)) = p

\* s.find(sub) from position i on, 1-based; 0 when sub does not occur
RECURSIVE FindFrom(_, _, _)
FindFrom(s, sub, i) ==
    IF i + Len(sub) - 1 > Len(s) THEN 0
    ELSE IF SubSeq(s, i, i + Len(sub) - 1) = sub THEN i
    ELSE FindFrom(s, sub, i + 1)

Find(s, sub) == FindFrom(s, sub, 1)

\* s.rfind(sub) at position i or before, 1-based; 0 when sub does not occur
RECURSIVE RFindFrom(_, _, _)
RFindFrom(s, sub, i) ==
    IF i < 1 THEN 0
    ELSE IF SubSeq(s, i, i + Len(sub) - 1) = sub THEN i
    ELSE RFindFrom(s, sub, i - 1)

RFind(s, sub) == RFindFrom(s, sub, Len(s) - Len(sub) + 1)

\* sub in s
Contains(s, sub) == Find(s, sub) # 0

\* s.replace(old, new) for a non-empty old
RECURSIVE Replace(_, _, _)
Replace(s, old, new) ==
    LET i == Find(s, old)
    IN  IF i = 0 THEN s
        ELSE SubSeq(s, 1, i - 1) \o new
             \o Replace(SubSeq(s, i + Len(old), Len(s)), old, new)

\* s.split(sep) for a non-empty sep
RECURSIVE Split(_, _)
Split(s, sep) ==
    LET i == Find(s, sep)
    IN  IF i = 0 THEN <<s>>
        ELSE <<SubSeq(s, 1, i - 1)>>
             \o Split(SubSeq(s, i + Len(sep), Len(s)), sep)

\* sep.join(parts)
RECURSIVE Join(_, _)
Join(parts, sep) ==
    IF Len(parts) = 0 THEN ""
    ELSE IF Len(parts) = 1 THEN parts[1]
         ELSE parts[1] \o sep \o Join(Tail(parts), sep)

\* the characters of s, as Python iterates a str
RECURSIVE Chars(_)
Chars(s) == IF Len(s) = 0 THEN <<>> ELSE <<Head(s)>> \o Chars(Tail(s))

\* the characters of the model's strings in code point order
CodePoints ==
    " \"$'()*,-./0123456789;ABCDEFGHIJKLMNOPQRSTUVWXYZ[\\]_abcdefghijklmnopqrstuvwxyz"

Digits == "0123456789"

\* ord(c) up to an order-preserving renumbering; 0 for other characters
OrdTable ==
    [c \in {SubSeq(CodePoints, i, i) : i \in 1..Len(CodePoints)} |->
        Find(CodePoints, c)]

Ord(c) == IF c \in DOMAIN OrdTable THEN OrdTable[c] ELSE 0

\* s < t in Python's str order, comparing from position i on
RECURSIVE StrLessFrom(_, _, _)
StrLessFrom(s, t, i) ==
    IF i > Len(t) THEN FALSE
    ELSE IF i > Len(s) THEN TRUE
    ELSE LET c == SubSeq(s, i, i)
             d == SubSeq(t, i, i)
         IN  IF c = d THEN StrLessFrom(s, t, i + 1) ELSE Ord(c) < Ord(d)

StrLess(s, t) == StrLessFrom(s, t, 1)

\* sorted(list(set(...))): every element is inserted behind the smaller ones
RECURSIVE SortedOf(_)
SortedOf(S) ==
    IF S = {} THEN <<>>
    ELSE LET x == CHOOSE e \in S : TRUE
             q == SortedOf(S \ {x})
             k == Cardinality({i \in 1..Len(q) : StrLess(q[i], x)})
         IN  SubSeq(q, 1, k) \o <<x>> \o SubSeq(q, k + 1, Len(q))

Range(q) == {q[i] : i \in 1..Len(q)}

(***************************************************************************)
(* os.path (posixpath)                                                     *)
(***************************************************************************)

\* os.path.basename
os_path_basename(p) == SubSeq(p, RFind(p, "/") + 1, Len(p))

\* os.path.dirname, for paths without a run of slashes before the basename
os_path_dirname(p) ==
    LET i == RFind(p, "/")
    IN  IF i = 0 THEN "" ELSE IF i = 1 THEN "/" ELSE SubSeq(p, 1, i - 1)

\* os.path.splitext(name)[1] for a name without directory part
os_path_ext(name) ==
    LET i == RFind(name, ".")
    IN  IF i = 0 THEN ""
        ELSE IF \A j \in 1..(i - 1) : SubSeq(name, j, j) = "." THEN ""
        ELSE SubSeq(name, i, Len(name))

\* os.path.join(a, b)
os_path_join(a, b) ==
    IF StartsWith(b, "/") THEN b
    ELSE IF Len(a) = 0 \/ EndsWith(a, "/") THEN a \o b
    ELSE a \o "/" \o b

(***************************************************************************)
(* get-hints.py: reader                                                    *)
(***************************************************************************)

\* str.isalnum() on the model's characters
IsAlnum(s) ==
    /\ Len(s) > 0
    /\ \A i \in 1..Len(s) :
          LET c == SubSeq(s, i, i)
          IN  Ord(c) >= Ord("0") /\ c \notin {";", "[", "\\", "]", "_"}

IsDigits(s) ==
    Len(s) > 0 /\ \A i \in 1..Len(s) : Contains(Digits, SubSeq(s, i, i))

\* int(s) for a string of decimal digits
RECURSIVE IntOf(_)
IntOf(s) ==
    IF Len(s) = 0 THEN 0
    ELSE 10 * IntOf(SubSeq(s, 1, Len(s) - 1))
         + (Find(Digits, SubSeq(s, Len(s), Len(s))) - 1)

RECURSIVE LStrip(_)
LStrip(s) == IF StartsWith(s, " ") THEN LStrip(Tail(s)) ELSE s

\* the elements of a JSON array body: "x", "y", ... (strings without escapes)
RECURSIVE JsonItems(_)
JsonItems(s) ==
    IF ~StartsWith(s, "\"") THEN [ok |-> FALSE, items |-> <<>>]
    ELSE LET body == Tail(s)
             q    == Find(body, "\"")
         IN  IF q = 0 THEN [ok |-> FALSE, items |-> <<>>]
             ELSE LET item == SubSeq(body, 1, q - 1)
                      rest == LStrip(SubSeq(body, q + 1, Len(body)))
                  IN  IF Len(rest) = 0 THEN [ok |-> TRUE, items |-> <<item>>]
                      ELSE IF ~StartsWith(rest, ",")
                           THEN [ok |-> FALSE, items |-> <<>>]
                           ELSE LET more == JsonItems(LStrip(Tail(rest)))
                                IN  [ok    |-> more.ok,
                                     items |-> <<item>> \o more.items]

\* json.loads(s) where the value is an array of strings; any other text
\* raises ValueError
json_loads(s) ==
    IF ~(StartsWith(s, "[") /\ EndsWith(s, "]") /\ Len(s) >= 2)
    THEN [ok |-> FALSE, items |-> <<>>]
    ELSE LET inner == LStrip(SubSeq(s, 2, Len(s) - 1))
         IN  IF Len(inner) = 0 THEN [ok |-> TRUE, items |-> <<>>]
             ELSE JsonItems(inner)

\* the tuple rendering of a from-list turned into JSON text
TupleToJson(t) ==
    Replace(Replace(Replace(Replace(t, "(", "["), ",)", "]"), ")", "]"),
            "'", "\"")

\* a record as call_analyzer sees it: n is the length of the Python list,
\* f2 its third element, f3 the fourth element of a RESULT, isNone/implist
\* the fourth element of a CALL
NoRecord ==
    [n |-> 0, level |-> 0, type |-> "", f2 |-> "", f3 |-> "",
     isNone |-> TRUE, implist |-> <<>>]

\* reader(f) applied to one line of the log (without its line break);
\* status "exit" is sys.exit("cancelling"), "raise" an uncaught exception
ParseLine(text) ==
    LET tt == Split(text, ";")
    IN  IF \/ Len(tt) \notin {3, 4}
           \/ ~IsAlnum(tt[1])
           \/ tt[2] \notin {"CALL", "RESULT", "EXCEPTION"}
        THEN [status |-> "exit", rec |-> NoRecord]
        ELSE IF ~IsDigits(tt[1])
        THEN [status |-> "raise", rec |-> NoRecord]
        ELSE IF tt[2] = "EXCEPTION"
        THEN [status |-> "ok",
              rec |-> [n |-> 3, level |-> IntOf(tt[1]), type |-> tt[2],
                       f2 |-> tt[3], f3 |-> "", isNone |-> TRUE,
                       implist |-> <<>>]]
        ELSE IF Len(tt) = 3
        THEN [status |-> "raise", rec |-> NoRecord]
        ELSE IF tt[2] = "RESULT"
        THEN [status |-> "ok",
              rec |-> [n |-> 4, level |-> IntOf(tt[1]), type |-> tt[2],
                       f2 |-> tt[3], f3 |-> tt[4], isNone |-> TRUE,
                       implist |-> <<>>]]
        ELSE IF tt[4] = "None"
        THEN [status |-> "ok",
              rec |-> [n |-> 4, level |-> IntOf(tt[1]), type |-> tt[2],
                       f2 |-> tt[3], f3 |-> "", isNone |-> TRUE,
                       implist |-> <<>>]]
        ELSE LET js == json_loads(TupleToJson(tt[4]))
             IN  IF ~js.ok THEN [status |-> "raise", rec |-> NoRecord]
                 ELSE [status |-> "ok",
                       rec |-> [n |-> 4, level |-> IntOf(tt[1]),
                                type |-> tt[2], f2 |-> tt[3], f3 |-> "",
                                isNone |-> FALSE, implist |-> js.items]]

\* reader(f): the record at line number ln of the log lines; status "eof"
\* is the empty list returned at end of file
reader(lines, ln) ==
    IF ln > Len(lines) THEN [status |-> "eof", rec |-> NoRecord]
    ELSE ParseLine(lines[ln])

(***************************************************************************)
(* get-hints.py: call_analyzer, the part after the closing record is read   *)
(***************************************************************************)

\* accept everything within these packages
accept_always == {"importlib_metadata", "pytest", "_pytest"}

\* getSharedLibrarySuffix(preferred=True) of the platform the trace is
\* analyzed on (the shim writes shared libraries as <name>.so)
SharedLibrarySuffix == ".so"

\* hasFilenameExtension(path, suffix)
hasFilenameExtension(path, suffix) == os_path_ext(os_path_basename(path)) = suffix

\* normalize_file(t); fatal is sys.exit("found unknown Python module type")
normalize_file(t) ==
    LET folder == os_path_dirname(t)
        datei0 == os_path_basename(t)
        ext    == os_path_ext(datei0)
        arr    == Split(datei0, ".")
        datei  == IF ext \in {".pyd", ".so"}
                  THEN IF Len(arr) > 2
                       THEN Join(SubSeq(arr, 1, Len(arr) - 2), ".")
                       ELSE Join(SubSeq(arr, 1, Len(arr) - 1), ".")
                  ELSE datei0
        t1     == os_path_join(folder, datei)
        t2     == Replace(Replace(Replace(t1, "\\", "."), "/", "."),
                          "$PYTHONPATH.", "")
    IN  IF EndsWith(t2, ".__init__.py")
        THEN [fatal |-> FALSE, name |-> SubSeq(t2, 1, Len(t2) - 12)]
        ELSE IF EndsWith(t2, ".py")
        THEN [fatal |-> FALSE, name |-> SubSeq(t2, 1, Len(t2) - 3)]
        ELSE IF ext \notin {".pyd", ".so"}
        THEN [fatal |-> TRUE, name |-> t2]
        ELSE [fatal |-> FALSE, name |-> t2]

\* call_list[2] and call_list[3] of the record call_analyzer was entered with
CALLED_of(call_list) == call_list.f2

\* "not implist": None, an empty list or (for a RESULT record) an empty str
ImplistFalsy(call_list) ==
    IF call_list.type = "CALL"
    THEN call_list.isNone \/ call_list.implist = <<>>
    ELSE Len(call_list.f3) = 0

\* what "for item in implist" iterates over
ImplistItems(call_list) ==
    IF call_list.type = "CALL" THEN call_list.implist
    ELSE Chars(call_list.f3)

\* lines 250-251, 272-273, 284-285: cmod + "." + item for item in implist
Under(cmod, items) == [i \in 1..Len(items) |-> cmod \o "." \o items[i]]

\* a rule-a test that leaves the accept_always packages out
AcceptsAll_sharedOnly(res_file, normalized_file) ==
    hasFilenameExtension(res_file, SharedLibrarySuffix)

\* lines 240-243: members of shared modules and of the accept_always packages
\* are all allowed
AcceptsAll(res_file, normalized_file) ==
    \/ hasFilenameExtension(res_file, SharedLibrarySuffix)
    \/ normalized_file \in accept_always

\* an empty-CALLED rule that qualifies nothing
EmptyCalled_nothing(falsy, items, RESULT) == <<>>

\* lines 247-252: the CALL name is empty
EmptyCalled(falsy, items, RESULT) ==
    IF falsy THEN <<>> ELSE Under(RESULT, items)

\* lines 254-258: CALL and RESULT names contain each other in some way
Related(CALLED, RESULT) ==
    \/ StartsWith(CALLED, RESULT)
    \/ StartsWith(RESULT, CALLED)
    \/ EndsWith(RESULT, CALLED)

\* a choice of cmod that lets RESULT win whenever the names differ
TrueName_resultWins(CALLED, RESULT) == RESULT

\* lines 264-271: cmod, the name the list items are qualified under
TrueName(CALLED, RESULT) ==
    IF CALLED = RESULT THEN CALLED
    ELSE IF EndsWith(RESULT, CALLED) THEN RESULT
    ELSE IF StartsWith(RESULT, CALLED) THEN RESULT
    ELSE CALLED

\* the write_mod names that follow write_mod(RESULT): lines 240-286
ReconciledNames(CALLED, falsy, items, RESULT, res_file, normalized_file) ==
    IF AcceptsAll(res_file, normalized_file)
    THEN <<RESULT \o ".*">>
    ELSE IF Len(CALLED) = 0
    THEN EmptyCalled(falsy, items, RESULT)
    ELSE IF Related(CALLED, RESULT)
    THEN IF falsy
         THEN IF CALLED # RESULT THEN <<CALLED>> ELSE <<>>
         ELSE Under(TrueName(CALLED, RESULT), items)
    ELSE LET cmod == RESULT \o "." \o CALLED
         IN  IF falsy THEN <<cmod>> ELSE <<cmod>> \o Under(cmod, items)

\* a closing record that adds nothing
Nothing == [fatal |-> FALSE, calls |-> <<>>, files |-> <<>>]

\* lines 221-225: the file name normalize_file is given
EffectiveFile(RESULT, file) ==
    IF StartsWith(RESULT, "win32com")
    THEN "$PYTHONPATH\\win32com\\__init__.py"
    ELSE IF EndsWith(file, ".dll") THEN RESULT \o ".py" ELSE file

\* lines 231-286 for a RESULT that is recorded
Recorded(call_list, RESULT, res_file) ==
    LET nf    == normalize_file(res_file)
        names == <<RESULT>> \o
                 ReconciledNames(CALLED_of(call_list), ImplistFalsy(call_list),
                                 ImplistItems(call_list), RESULT, res_file,
                                 nf.name)
    IN  IF nf.fatal
        THEN [fatal |-> TRUE, calls |-> <<>>, files |-> <<>>]
        ELSE [fatal |-> FALSE,
              calls |-> [i \in 1..Len(names) |-> <<names[i], nf.name>>],
              files |-> <<nf.name>>]

\* a closing that records the requested name of a failed import
Closing_failureRecorded(call_list, text) ==
    IF text.type = "EXCEPTION"
    THEN [fatal |-> FALSE, calls |-> <<<<call_list.f2, "">>>>, files |-> <<>>]
    ELSE IF text.type # "RESULT"
    THEN [fatal |-> TRUE, calls |-> <<>>, files |-> <<>>]
    ELSE IF text.f2 = "__main__" THEN Nothing
    ELSE IF text.f3 = "built-in" THEN Nothing
    ELSE Recorded(call_list, text.f2, EffectiveFile(text.f2, text.f3))


\* a closing that aborts when the closing record is not of the call's level
Closing_depthChecked(call_list, text) ==
    IF text.level # call_list.level
    THEN [fatal |-> TRUE, calls |-> <<>>, files |-> <<>>]
    ELSE IF text.type = "EXCEPTION" THEN Nothing
    ELSE IF text.type # "RESULT"
    THEN [fatal |-> TRUE, calls |-> <<>>, files |-> <<>>]
    ELSE IF text.f2 = "__main__" THEN Nothing
    ELSE IF text.f3 = "built-in" THEN Nothing
    ELSE Recorded(call_list, text.f2, EffectiveFile(text.f2, text.f3))

\* a closing that looks for built-in only after the file was substituted
Closing_lateBuiltin(call_list, text) ==
    IF text.type = "EXCEPTION" THEN Nothing
    ELSE IF text.type # "RESULT"
    THEN [fatal |-> TRUE, calls |-> <<>>, files |-> <<>>]
    ELSE IF text.f2 = "__main__" THEN Nothing
    ELSE IF EffectiveFile(text.f2, text.f3) = "built-in" THEN Nothing
    ELSE Recorded(call_list, text.f2, EffectiveFile(text.f2, text.f3))

\* call_analyzer from line 202 on, for the call call_list closed by the
\* record text: the (name, file) pairs appended to import_calls and the
\* files appended to import_files, or the fatal exit
Closing(call_list, text) ==
    IF text.type = "EXCEPTION" THEN Nothing
    ELSE IF text.type # "RESULT"
    THEN [fatal |-> TRUE, calls |-> <<>>, files |-> <<>>]
    ELSE IF text.f2 = "__main__" THEN Nothing
    ELSE IF text.f3 = "built-in" THEN Nothing
    ELSE Recorded(call_list, text.f2, EffectiveFile(text.f2, text.f3))

\* "CALL" in text, for a record the reader returned
HasCALL(text) ==
    \/ text.type = "CALL"
    \/ text.f2 = "CALL"
    \/ (text.type = "RESULT" /\ text.f3 = "CALL")

(***************************************************************************)
(* get-hints.py: clean_json                                                *)
(***************************************************************************)

\* step 1 of clean_json: the loop over netto_calls, from position i on, with
\* last_item ("" standing for None, which is falsy as well)
RECURSIVE CleanScan(_, _, _)
CleanScan(netto_calls, i, last_item) ==
    IF i > Len(netto_calls) THEN <<>>
    ELSE LET x == netto_calls[i]
         IN  IF Len(last_item) > 0 /\ StartsWith(x, last_item)
             THEN CleanScan(netto_calls, i + 1, last_item)
             ELSE <<x>> \o CleanScan(netto_calls, i + 1,
                                     IF EndsWith(x, ".*")
                                     THEN SubSeq(x, 1, Len(x) - 1)
                                     ELSE last_item)

\* list.remove(x) for every x of temp_list, on a duplicate-free list
RemoveAll(list_out, temp) ==
    LET Keep(i) == list_out[i] \notin temp
        RECURSIVE Filter(_)
        Filter(i) == IF i > Len(list_out) THEN <<>>
                     ELSE IF Keep(i) THEN <<list_out[i]>> \o Filter(i + 1)
                     ELSE Filter(i + 1)
    IN  Filter(1)

\* a reduction that leaves step 2 to the next run whenever step 1 removed
\* something
clean_json_oneStepPerRun(netto_calls) ==
    LET list_out  == CleanScan(netto_calls, 1, "")
        temp_list == {x \in Range(list_out) : (x \o ".*") \in Range(list_out)}
    IN  IF Len(list_out) < Len(netto_calls) THEN list_out
        ELSE RemoveAll(list_out, temp_list)

\* clean_json(netto_calls)
clean_json(netto_calls) ==
    LET list_out  == CleanScan(netto_calls, 1, "")
        temp_list == {x \in Range(list_out) : (x \o ".*") \in Range(list_out)}
    IN  RemoveAll(list_out, temp_list)

(***************************************************************************)
(* get-hints.py: myexit, the loop over the log and the artifact             *)
(***************************************************************************)

\* the traced script is app.py: lname is app.log
ScriptBase == "app"

hinter_name == "hinted-" \o ScriptBase

VARIABLES
    log,            \* the lines of the consolidated logfile lname
    line_number,    \* the global line_number: reader calls made so far
    stack,          \* the open call_analyzer activations, innermost last
    import_calls,   \* list of (name, file) pairs
    import_files,   \* list of normalized files
    pc,             \* "join" before myexit, then "run", "done", "exit"
                    \* (sys.exit) or "raise" (traceback)
    artifact,       \* the JSON file jname: written flag, calls and files
    closings        \* observation: for every call_analyzer activation that
                    \* ended, its call record, the record that closed it and
                    \* what it appended

avars == <<log, line_number, stack, import_calls, import_files, pc, artifact,
           closings>>

\* the reduction and the checklist, applied to lists of call names
VARIABLES
    netto,          \* the sorted, duplicate-free list given to clean_json
    cleaned_list,   \* clean_json(netto)
    cleaned_again,  \* clean_json(cleaned_list)
    stage,          \* how many times clean_json ran
    verdict         \* the checklist test of one module name against
                    \* netto and against cleaned_list

rvars == <<netto, cleaned_list, cleaned_again, stage, verdict>>

\* the state of HintedModsPlugin and of the plugins around it
VARIABLES
    self_import_calls,       \* self.import_calls
    self_import_files,       \* self.import_files
    implicit_imports,        \* self.implicit_imports
    ignored_modules,         \* self.ignored_modules
    msg_count,               \* self.msg_count, 0 where the dict has no key
    implicit_imports_plugin, \* self.implicit_imports_plugin, "" for None
    active_plugins,          \* getActivePlugins(), in registration order
    advice,                  \* what each other plugin's onModuleEncounter
                             \* returns for a module: "None", "KEEP", "DROP"
    known_imports,           \* getImportsByFullname of 'implicit-imports':
                             \* the names it reports for a package, and
                             \* whether calling it raises TypeError
    ppc,                     \* "ready", or "exit" after sys.exit
    shown,                   \* the messages self.info has printed
    answers                  \* observation: for every query its name, the
                             \* answer, the plugins asked and the messages

pvars == <<self_import_calls, self_import_files, implicit_imports,
           ignored_modules, msg_count, implicit_imports_plugin,
           active_plugins, advice, known_imports, ppc, shown, answers>>

\* the main program of get-hints.py, the traced process and its subprocesses
VARIABLES
    platform,       \* sys.platform of the machine: "posix" or "windows"
    timeout,        \* the timeout in ticks, 0 for None (no timeout)
    elapsed,        \* ticks spent in proc.wait
    procs,          \* the traced process and its subprocess: "none",
                    \* "running" or "exited"
    frags,          \* the logfile of each process: whether it exists, whether
                    \* its owner holds it open, and its number of lines
    rpc,            \* where the main program is
    log_files,      \* the list log_files still to be joined
    joined          \* observation: the fragments joined, with the lines read
                    \* and whether a process was still running then

nvars == <<platform, timeout, elapsed, procs, frags, rpc, log_files, joined>>

\* the import shim inside one traced process
VARIABLES
    logfile,        \* the lines written to the process's logfile
    indentation,    \* the global _indentation
    frames,         \* the activations of _ourimport, innermost last
    spc,            \* "tracing", the exception in flight, or "ended"
    import_hook,    \* the function builtins.__import__ is bound to
    entered         \* _indentation as each activation of frames found it

svars == <<logfile, indentation, frames, spc, import_hook, entered>>

vars == <<avars, rvars, pvars, nvars, svars>>

NoArtifact == [written |-> FALSE, calls |-> <<>>, files |-> <<>>]

\* a JSON file left at jname by an earlier run of get-hints.py; written is
\* set when this run writes the file
OldArtifact == [written |-> FALSE, calls |-> <<"old.*">>, files |-> <<"old">>]

\* the result of the next reader(f) call
NextRecord == reader(log, line_number + 1)

\* a call_analyzer activation right after lines 181-183
Frame(call_list, at) == [call_list |-> call_list, line |-> at, looped |-> FALSE]

\* myexit lines 336-357: lists made unique and sorted, reduced, written
WriteArtifact ==
    LET netto_files0 == Range(import_files)
        netto_files  == SortedOf(netto_files0 \ {hinter_name})
        netto_calls  == SortedOf({import_calls[i][1] : i \in
                            {j \in 1..Len(import_calls) :
                                import_calls[j][2] # hinter_name}})
    IN  [written |-> TRUE, calls |-> clean_json(netto_calls),
         files |-> netto_files]

\* entering call_analyzer(f, text, ...): line 183 indexes text[3]
Enter(text) ==
    IF text.n < 4
    THEN /\ pc' = "raise"
         /\ UNCHANGED stack
    ELSE /\ pc' = pc
         /\ stack' = Append([i \in 1..Len(stack) |->
                                IF i = Len(stack)
                                THEN [stack[i] EXCEPT !.looped = TRUE]
                                ELSE stack[i]],
                            Frame(text, line_number + 1))

\* reader fails on the next line: sys.exit("cancelling") or a traceback
ReaderFails ==
    /\ pc = "run"
    /\ line_number < Len(log)
    /\ LET nr == NextRecord
       IN  /\ nr.status \in {"exit", "raise"}
           /\ pc' = nr.status
    /\ line_number' = line_number + 1
    /\ UNCHANGED <<log, stack, import_calls, import_files, artifact, closings>>
    /\ UNCHANGED <<rvars, pvars, nvars, svars>>

\* myexit line 331-334: a record at top level starts a call_analyzer
MyexitCall ==
    /\ pc = "run"
    /\ stack = <<>>
    /\ LET nr == NextRecord
       IN  /\ nr.status = "ok"
           /\ Enter(nr.rec)
    /\ line_number' = line_number + 1
    /\ UNCHANGED <<log, import_calls, import_files, artifact, closings>>
    /\ UNCHANGED <<rvars, pvars, nvars, svars>>

\* myexit line 331-357: end of file at top level, the artifact is written
MyexitFinish ==
    /\ pc = "run"
    /\ stack = <<>>
    /\ line_number >= Len(log)
    /\ line_number' = line_number + 1
    /\ artifact' = WriteArtifact
    /\ pc' = "done"
    /\ UNCHANGED <<log, stack, import_calls, import_files, closings>>
    /\ UNCHANGED <<rvars, pvars, nvars, svars>>

\* call_analyzer lines 195-197: the record read is recursed into
AnalyzerRecurse ==
    /\ pc = "run"
    /\ stack # <<>>
    /\ LET nr == NextRecord
       IN  /\ nr.status = "ok"
           /\ HasCALL(nr.rec)
           /\ Enter(nr.rec)
    /\ line_number' = line_number + 1
    /\ UNCHANGED <<log, import_calls, import_files, artifact, closings>>
    /\ UNCHANGED <<rvars, pvars, nvars, svars>>

\* call_analyzer lines 185-189 and 197-200: end of file inside a call; fatal
\* on the first read of the activation, a plain return after nested calls
AnalyzerEOF ==
    /\ pc = "run"
    /\ stack # <<>>
    /\ line_number >= Len(log)
    /\ line_number' = line_number + 1
    /\ LET top == stack[Len(stack)]
       IN  IF ~top.looped
           THEN /\ pc' = "exit"
                /\ UNCHANGED <<stack, closings>>
           ELSE /\ pc' = pc
                /\ stack' = SubSeq(stack, 1, Len(stack) - 1)
                /\ closings' = Append(closings,
                       [call |-> top.call_list, line |-> top.line,
                        closedBy |-> 0, text |-> NoRecord,
                        calls |-> <<>>, files |-> <<>>])
    /\ UNCHANGED <<log, import_calls, import_files, artifact>>
    /\ UNCHANGED <<rvars, pvars, nvars, svars>>

\* call_analyzer lines 199-286: the record read closes the current call
AnalyzerClose ==
    /\ pc = "run"
    /\ stack # <<>>
    /\ line_number' = line_number + 1
    /\ LET nr  == NextRecord
           top == stack[Len(stack)]
           out == Closing(top.call_list, nr.rec)
       IN  /\ nr.status = "ok"
           /\ ~HasCALL(nr.rec)
           /\ IF out.fatal
              THEN /\ pc' = "exit"
                   /\ UNCHANGED <<stack, import_calls, import_files, closings>>
              ELSE /\ pc' = pc
                   /\ stack' = SubSeq(stack, 1, Len(stack) - 1)
                   /\ import_calls' = import_calls \o out.calls
                   /\ import_files' = import_files \o out.files
                   /\ closings' = Append(closings,
                          [call |-> top.call_list, line |-> top.line,
                           closedBy |-> line_number + 1, text |-> nr.rec,
                           calls |-> out.calls, files |-> out.files])
    /\ UNCHANGED <<log, artifact>>
    /\ UNCHANGED <<rvars, pvars, nvars, svars>>

(***************************************************************************)
(* hinted-mods.py: get_checklist, check_dependents                         *)
(***************************************************************************)

\* ModuleName.splitPackageName() of Nuitka: the top level package name and
\* the remaining module name; pkg "" stands for None (both are falsy)
splitPackageName(name) ==
    LET i == Find(name, ".")
    IN  IF i = 0 THEN [pkg |-> "", rest |-> name]
        ELSE [pkg |-> SubSeq(name, 1, i - 1),
              rest |-> SubSeq(name, i + 1, Len(name))]

\* ModuleName.getTopLevelPackageName() of Nuitka
getTopLevelPackageName(name) ==
    LET i == Find(name, ".")
    IN  IF i = 0 THEN name ELSE SubSeq(name, 1, i - 1)

\* ModuleName.getPackageName() of Nuitka; "" stands for None
getPackageName(name) ==
    LET i == RFind(name, ".")
    IN  IF i = 0 THEN "" ELSE SubSeq(name, 1, i - 1)

\* the while loop of get_checklist, lines 91-96
RECURSIVE StarImports(_, _)
StarImports(full_name, m0) ==
    LET sp == splitPackageName(full_name)
        m1 == IF Len(m0) > 0 THEN m0 \o "." \o sp.pkg ELSE sp.pkg
    IN  IF Len(sp.pkg) = 0 THEN <<>>
        ELSE <<m1 \o ".*">> \o StarImports(sp.rest, m1)

\* get_checklist(full_name)
get_checklist(full_name) ==
    IF Len(full_name) = 0 THEN <<>>
    ELSE <<full_name>> \o StarImports(full_name, "")

\* check_dependents(full_name, import_list)
check_dependents(full_name, import_list) ==
    \E i \in 1..Len(import_list) : StartsWith(import_list[i], full_name \o ".")

\* lines 383-386 of onModuleEncounter: the module is hinted to
Hinted(full_name, calls) ==
    \E i \in 1..Len(calls) : calls[i] \in Range(get_checklist(full_name))

(***************************************************************************)
(* The reduction and the checklist, applied to lists of call names          *)
(***************************************************************************)

NoVerdict ==
    [name |-> "", checklist |-> <<>>, raw |-> FALSE, reduced |-> FALSE]

\* myexit line 352, on the list of line 349
CleanOnce ==
    /\ stage = 0
    /\ cleaned_list' = clean_json(netto)
    /\ stage' = 1
    /\ UNCHANGED <<netto, cleaned_again, verdict>>
    /\ UNCHANGED <<avars, pvars, nvars, svars>>

\* clean_json run on its own output
CleanAgain ==
    /\ stage = 1
    /\ cleaned_again' = clean_json(cleaned_list)
    /\ stage' = 2
    /\ UNCHANGED <<netto, cleaned_list, verdict>>
    /\ UNCHANGED <<avars, pvars, nvars, svars>>

\* onModuleEncounter lines 383-386 for full_name, with the calls unreduced
\* and reduced
Judge(full_name) ==
    /\ stage = 1
    /\ verdict = NoVerdict
    /\ verdict' = [name      |-> full_name,
                   checklist |-> get_checklist(full_name),
                   raw       |-> Hinted(full_name, netto),
                   reduced   |-> Hinted(full_name, cleaned_list)]
    /\ UNCHANGED <<netto, cleaned_list, cleaned_again, stage>>
    /\ UNCHANGED <<avars, pvars, nvars, svars>>

(***************************************************************************)
(* hinted-mods.py: HintedModsPlugin                                        *)
(***************************************************************************)

\* plugin_name of HintedModsPlugin: the last part of the module name
plugin_name == "hinted-mods"

\* self.msg_limit
msg_limit == 21

\* self.accept_test
accept_test == FALSE

\* __init__ lines 165-177: without a matplotlib backend every reference to
\* matplotlib is removed
RECURSIVE WithoutMatplotlib(_)
WithoutMatplotlib(names) ==
    IF Len(names) = 0 THEN <<>>
    ELSE IF StartsWith(names[1], "matplotlib")
            \/ StartsWith(names[1], "mpl_toolkits")
         THEN WithoutMatplotlib(Tail(names))
         ELSE <<names[1]>> \o WithoutMatplotlib(Tail(names))

\* drop_msg(module_name, module_package)
drop_msg(module_name, module_package) ==
    IF Len(module_package) > 0
    THEN "drop " \o module_name \o " (in " \o module_package \o ")"
    ELSE "drop " \o module_name

\* what a query leaves behind when it changes no cache
Unchanged(rc, reason) ==
    [rc |-> rc, reason |-> reason, ignored |-> ignored_modules,
     implicit |-> implicit_imports, counts |-> msg_count,
     iip |-> implicit_imports_plugin, consulted |-> <<>>, infos |-> <<>>]

\* an ignored-modules cache that forgets what it is told
Ignore_forgets(full_name) == ignored_modules

\* self.ignored_modules.add(full_name): lines 346, 372 and 420
Ignore(full_name) == ignored_modules \cup {full_name}

\* the plugins of lines 353-355: all active ones but this one, in order
Delegates == SelectSeq(active_plugins, LAMBDA q : q # plugin_name)

\* a search that lets the last delegate with an opinion decide
FirstOpinionFrom_last(full_name, k) ==
    LET opinions == {j \in k..Len(Delegates) :
                        advice[Delegates[j]][full_name] # "None"}
    IN  IF opinions = {} THEN 0
        ELSE CHOOSE j \in opinions : \A i \in opinions : i <= j

\* the first delegate that returns other than None for the module; 0 if none
RECURSIVE FirstOpinionFrom(_, _)
FirstOpinionFrom(full_name, k) ==
    IF k > Len(Delegates) THEN 0
    ELSE IF advice[Delegates[k]][full_name] # "None" THEN k
    ELSE FirstOpinionFrom(full_name, k + 1)

\* a delegate's KEEP that is always announced
Delegated_uncapped(full_name, k) ==
    LET plugin == Delegates[k]
        count  == msg_count[plugin]
        asked  == SubSeq(Delegates, 1, k)
    IN  IF advice[plugin][full_name] = "KEEP"
        THEN [Unchanged("KEEP", "module is imported") EXCEPT
                 !.implicit  = implicit_imports \cup {full_name},
                 !.counts    = [msg_count EXCEPT ![plugin] = count + 1],
                 !.consulted = asked,
                 !.infos     = <<"keep " \o full_name \o " (plugin '" \o plugin
                                 \o "')">>]
        ELSE [Unchanged("DROP", "dropped by plugin " \o plugin) EXCEPT
                 !.ignored   = Ignore(full_name),
                 !.consulted = asked,
                 !.infos     = <<"drop " \o full_name \o " (plugin '"
                                 \o plugin \o "')">>]

\* lines 358-375: the delegate Delegates[k] expressed an opinion
Delegated(full_name, k) ==
    LET plugin == Delegates[k]
        count  == msg_count[plugin]
        asked  == SubSeq(Delegates, 1, k)
    IN  IF advice[plugin][full_name] = "KEEP"
        THEN [Unchanged("KEEP", "module is imported") EXCEPT
                 !.implicit  = implicit_imports \cup {full_name},
                 !.counts    = [msg_count EXCEPT ![plugin] = count + 1],
                 !.consulted = asked,
                 !.infos     =
                     (IF count < msg_limit
                      THEN <<"keep " \o full_name \o " (plugin '" \o plugin
                             \o "')">>
                      ELSE <<>>)
                     \o (IF count = msg_limit
                         THEN <<"... 'keep' msg limit exceeded for '"
                                \o plugin \o "'.">>
                         ELSE <<>>)]
        ELSE [Unchanged("DROP", "dropped by plugin " \o plugin) EXCEPT
                 !.ignored   = Ignore(full_name),
                 !.consulted = asked,
                 !.infos     = <<"drop " \o full_name \o " (plugin '"
                                 \o plugin \o "')">>]

\* a fallback that runs off its end without a return statement
Fallback_abstains(full_name, package) ==
    [Unchanged("None", "") EXCEPT !.consulted = Delegates]

\* lines 391-421: the 'implicit-imports' plugin is asked, else the module is
\* kicked out
Fallback(full_name, package) ==
    LET found == implicit_imports_plugin # ""
                 \/ \E i \in 1..Len(active_plugins) :
                        active_plugins[i] = "implicit-imports"
        base  == [Unchanged("DROP", "module is not used") EXCEPT
                     !.consulted = Delegates,
                     !.iip = IF found THEN "implicit-imports" ELSE ""]
    IN  IF ~found
        THEN [base EXCEPT !.rc = "exit",
                          !.reason = "could not find 'implicit-imports' plugin"]
        ELSE IF Len(package) > 0 /\ known_imports.raises
        THEN [base EXCEPT !.rc = "exit",
                          !.reason = "versions of hinted-mods.py and ImplicitImports.py are incompatible"]
        ELSE IF Len(package) > 0 /\ full_name \in known_imports.names[package]
        THEN [base EXCEPT !.rc = "KEEP",
                          !.reason = "module is an implicit import",
                          !.implicit = implicit_imports
                                       \cup known_imports.names[package]]
        ELSE [base EXCEPT !.ignored = Ignore(full_name),
                          !.infos = <<drop_msg(full_name, package)>>]

\* lines 377-421: no cache and no delegate decided
Undelegated(full_name, package) ==
    LET kept(reason) == [Unchanged("KEEP", reason) EXCEPT
                            !.consulted = Delegates]
    IN  IF full_name = "cv2" THEN kept("needed by OpenCV")
        ELSE IF StartsWith(getTopLevelPackageName(full_name), "pywin")
        THEN kept("needed by pywin32")
        ELSE IF Hinted(full_name, self_import_calls)
        THEN kept("module is hinted to")
        ELSE IF check_dependents(full_name, self_import_files)
        THEN kept("parent of recursed-to module")
        ELSE Fallback(full_name, package)

\* onModuleEncounter of a plugin whose option 'test' is set (line 148): the
\* test packages are treated as every other module
Decide_testsAccepted(full_name) ==
    LET top_level_package_name == getTopLevelPackageName(full_name)
        package                == getPackageName(full_name)
        k                      == FirstOpinionFrom(full_name, 1)
    IN  IF top_level_package_name = "pkg_resources"
        THEN Unchanged("None", "")
        ELSE IF full_name \in ignored_modules
                \/ top_level_package_name \in ignored_modules
        THEN Unchanged("DROP", "module is not used")
        ELSE IF full_name \in implicit_imports
        THEN Unchanged("KEEP", "module is an implicit import")
        ELSE IF k # 0 THEN Delegated(full_name, k)
        ELSE Undelegated(full_name, package)

\* onModuleEncounter(module_filename, module_name, module_kind): the answer
\* and the caches it leaves
Decide(full_name) ==
    LET top_level_package_name == getTopLevelPackageName(full_name)
        package                == getPackageName(full_name)
        k                      == FirstOpinionFrom(full_name, 1)
    IN  IF top_level_package_name = "pkg_resources"
        THEN Unchanged("None", "")
        ELSE IF full_name \in ignored_modules
                \/ top_level_package_name \in ignored_modules
        THEN Unchanged("DROP", "module is not used")
        ELSE IF ~accept_test
                /\ top_level_package_name \in {"pytest", "_pytest", "unittest"}
        THEN [Unchanged("DROP", "suppress testing components") EXCEPT
                 !.ignored = Ignore(full_name),
                 !.infos = <<drop_msg(full_name, package)>>]
        ELSE IF full_name \in implicit_imports
        THEN Unchanged("KEEP", "module is an implicit import")
        ELSE IF k # 0 THEN Delegated(full_name, k)
        ELSE Undelegated(full_name, package)

\* the number of modules Nuitka asks about
MaxQueries == 3

\* what the query answered by d leaves in the plugin: the caches, the
\* counts, the messages printed; sys.exit ends the compilation
Leaves(d) ==
    /\ ignored_modules' = d.ignored
    /\ implicit_imports' = d.implicit
    /\ msg_count' = d.counts
    /\ implicit_imports_plugin' = d.iip
    /\ shown' = shown \o d.infos
    /\ ppc' = IF d.rc = "exit" THEN "exit" ELSE "ready"

\* Nuitka asks the plugin about a module
onModuleEncounter(full_name) ==
    /\ ppc = "ready"
    /\ Len(answers) < MaxQueries
    /\ LET d == Decide(full_name)
       IN  /\ Leaves(d)
           /\ answers' = Append(answers,
                  [name |-> full_name, rc |-> d.rc, reason |-> d.reason,
                   consulted |-> d.consulted, infos |-> d.infos,
                   ignored_before |-> ignored_modules,
                   implicit_before |-> implicit_imports])
    /\ UNCHANGED <<self_import_calls, self_import_files, active_plugins,
                   advice, known_imports>>
    /\ UNCHANGED <<avars, rvars, nvars, svars>>

(***************************************************************************)
(* The logs analyzed                                                       *)
(***************************************************************************)

\* longest log of the structural family
MaxLogLen == 4

\* lines the shim writes for nested imports
StructLines ==
    {"1;CALL;a;None", "2;CALL;b;('c',)",
     "1;RESULT;a;$PYTHONPATH/a.py", "2;RESULT;a.b;$PYTHONPATH/a/b.py",
     "1;EXCEPTION;No module named a", "2;EXCEPTION;CALL",
     "1;RESULT;CALL;$PYTHONPATH/CALL.py"}

\* all sequences over S of length at most n
RECURSIVE SeqsUpTo(_, _)
SeqsUpTo(S, n) ==
    IF n = 0 THEN {<<>>}
    ELSE LET shorter == SeqsUpTo(S, n - 1)
         IN  shorter \cup {Append(q, e) : q \in {r \in shorter : Len(r) = n - 1},
                                          e \in S}

StructLogs == SeqsUpTo(StructLines, MaxLogLen)

\* logs with a line the reader rejects: a blank line, a depth that is not a
\* number, an unknown kind, a RESULT or CALL of three fields, a from-list
\* that is no tuple of names, an EXCEPTION of four fields
OddLogs ==
    {<<l>> : l \in {"", "x1;CALL;a;None", "-;CALL;a;None", "1;IMPORT;a;None",
                     "1;RESULT;a", "1;CALL;a", "1;CALL;a;b;c",
                     "1;CALL;a;('b'", "1;EXCEPTION;no;more"}}
    \cup {<<"1;CALL;a;None", "", "1;RESULT;a;$PYTHONPATH/a.py">>,
          <<"1;CALL;a;None", "1;EXCEPTION;no;more">>}

\* one import at top level: requested name, from-list, resolved name, file
CalledNames == {"", "pkg", "pkg.sub", "pkg.sub.m", "sub", "x.b", "b"}

FromLists == {"None", "()", "('a',)", "('a', 'b')", "('*',)"}

ResultNames == {"pkg", "pkg.sub", "b", "os.path", "pytest", "win32com.client"}

ResultFiles ==
    {"built-in", "$PYTHONPATH/pkg.py", "$PYTHONPATH/pkg/__init__.py",
     "$PYTHONPATH/ext.so", "$PYTHONPATH/pytest.py",
     "$PYTHONPATH/_pytest/__init__.py", "$PYTHONPATH/pythoncom38.dll",
     "$PYTHONPATH/pkg/data.bin"}

\* the module __main__ of the traced process is the invoker script
HinterScript == "$PYTHONPATH/" \o hinter_name \o ".py"

PairLogs ==
    {<<"1;CALL;" \o c \o ";" \o l, "1;RESULT;" \o r \o ";" \o f>> :
        c \in CalledNames, l \in FromLists, r \in ResultNames, f \in ResultFiles}
    \cup {<<"1;CALL;" \o c \o ";" \o l, "1;RESULT;__main__;" \o HinterScript>> :
        c \in CalledNames, l \in FromLists}

\* no logfile is analyzed
IdleAnalyzer ==
    /\ log = <<>>
    /\ line_number = 0
    /\ stack = <<>>
    /\ import_calls = <<>>
    /\ import_files = <<>>
    /\ pc = "idle"
    /\ artifact = NoArtifact
    /\ closings = <<>>

\* no list is reduced
IdleReduce ==
    /\ netto = <<>>
    /\ cleaned_list = <<>>
    /\ cleaned_again = <<>>
    /\ stage = -1
    /\ verdict = NoVerdict

\* no plugin is constructed
IdlePolicy ==
    /\ self_import_calls = <<>>
    /\ self_import_files = <<>>
    /\ implicit_imports = {}
    /\ ignored_modules = {}
    /\ msg_count = <<>>
    /\ implicit_imports_plugin = ""
    /\ active_plugins = <<>>
    /\ advice = <<>>
    /\ known_imports = [raises |-> FALSE, names |-> <<>>]
    /\ ppc = "idle"
    /\ shown = <<>>
    /\ answers = <<>>

\* the main program is not run
IdleRunner ==
    /\ platform = "posix"
    /\ timeout = 0
    /\ elapsed = 0
    /\ procs = <<>>
    /\ frags = <<>>
    /\ rpc = "idle"
    /\ log_files = <<>>
    /\ joined = <<>>

\* no process is traced
IdleShim ==
    /\ logfile = <<>>
    /\ indentation = 0
    /\ frames = <<>>
    /\ spc = "idle"
    /\ import_hook = "original_import"
    /\ entered = <<>>

\* myexit is entered with the logfile just opened
Init ==
    /\ log \in StructLogs \cup OddLogs \cup PairLogs
    /\ line_number = 0
    /\ stack = <<>>
    /\ import_calls = <<>>
    /\ import_files = <<>>
    /\ pc = "run"
    /\ artifact \in {NoArtifact, OldArtifact}
    /\ closings = <<>>
    /\ IdleReduce
    /\ IdlePolicy
    /\ IdleRunner
    /\ IdleShim

Next ==
    \/ ReaderFails
    \/ MyexitCall
    \/ MyexitFinish
    \/ AnalyzerRecurse
    \/ AnalyzerEOF
    \/ AnalyzerClose

Spec == Init /\ [][Next]_vars

(***************************************************************************)
(* get-hints.py: the logfile of a traced process, joined and analyzed       *)
(***************************************************************************)

\* the most blank lines in the logfile of a process
MaxBlanks == 2

\* the lines a traced process wrote: complete imports, a rejected line, an
\* import cut short
Traces ==
    {<<>>,
     <<"1;CALL;a;None", "1;RESULT;a;$PYTHONPATH/a.py">>,
     <<"1;CALL;a;None", "1;EXCEPTION;No module named a">>,
     <<"1;CALL;a;None", "2;CALL;b;('c',)",
       "2;RESULT;a.b;$PYTHONPATH/a/b.py", "1;RESULT;a;$PYTHONPATH/a.py">>,
     <<"x1;CALL;a;None">>,
     <<"1;CALL;a;None">>,
     <<"1;CALL;a;None", "2;CALL;b;('c',)",
       "2;RESULT;a.b;$PYTHONPATH/a/b.py">>}

\* the logs with one more blank line than L, at any place
OneMoreBlank(L) ==
    {SubSeq(L, 1, k) \o <<"">> \o SubSeq(L, k + 1, Len(L)) : k \in 0..Len(L)}

\* the logs of S with up to n blank lines more
RECURSIVE WithBlanks(_, _)
WithBlanks(S, n) ==
    IF n = 0 THEN S
    ELSE S \cup WithBlanks(UNION {OneMoreBlank(L) : L \in S}, n - 1)

\* a join that copies every line
Consolidated_allLines(lines) == lines

\* lines 552-554: the lines written to the final logfile
Consolidated(lines) ==
    SelectSeq(lines, LAMBDA line : \/ Contains(line, "CALL")
                                   \/ Contains(line, "RESULT")
                                   \/ Contains(line, "EXCEPTION"))

\* the traced process has ended and left its logfile; the main program is
\* about to join it into the final logfile
InitJoin ==
    /\ logfile \in WithBlanks(Traces, MaxBlanks)
    /\ indentation = 0
    /\ frames = <<>>
    /\ spc = "ended"
    /\ import_hook = "_ourimport"
    /\ entered = <<>>
    /\ log = <<>>
    /\ line_number = 0
    /\ stack = <<>>
    /\ import_calls = <<>>
    /\ import_files = <<>>
    /\ pc = "join"
    /\ artifact = NoArtifact
    /\ closings = <<>>
    /\ IdleReduce
    /\ IdlePolicy
    /\ IdleRunner

\* lines 548-558: the logfile is joined and myexit is called
JoinLogs ==
    /\ pc = "join"
    /\ log' = Consolidated(logfile)
    /\ pc' = "run"
    /\ UNCHANGED <<line_number, stack, import_calls, import_files, artifact,
                   closings>>
    /\ UNCHANGED <<rvars, pvars, nvars, svars>>

NextJoin ==
    \/ JoinLogs
    \/ Next

SpecJoin == InitJoin /\ [][NextJoin]_vars

(***************************************************************************)
(* The lists reduced                                                       *)
(***************************************************************************)

\* longest list of call names
MaxCalls == 4

\* call names as myexit collects them
CallNames == {"a", "a.", "a.*", "a.b", "a.b.*", "a.b.c", "a.c", "ab", "b.*"}

\* module names Nuitka asks about
JudgeNames == {"a", "a.b", "a.b.c", "a.c", "ab", "b", "b.c"}

\* myexit lines 346-349: the names are unique and sorted
InitReduce ==
    /\ netto \in {SortedOf(S) : S \in {T \in SUBSET CallNames :
                                          Cardinality(T) <= MaxCalls}}
    /\ cleaned_list = <<>>
    /\ cleaned_again = <<>>
    /\ stage = 0
    /\ verdict = NoVerdict
    /\ IdleAnalyzer
    /\ IdlePolicy
    /\ IdleRunner
    /\ IdleShim

NextReduce ==
    \/ CleanOnce
    \/ CleanAgain
    \/ \E full_name \in JudgeNames : Judge(full_name)

SpecReduce == InitReduce /\ [][NextReduce]_vars

(***************************************************************************)
(* The compilations the plugin takes part in                               *)
(***************************************************************************)

\* the modules Nuitka asks about
QueryNames == {"a", "a.b", "b", "pytest.x", "pkg_resources"}

\* the packages these modules are in
QueryPackages == {getPackageName(n) : n \in QueryNames} \ {""}

\* the artifacts the compilation reads: calls and files
Artifacts ==
    {[calls |-> <<>>, files |-> <<>>],
     [calls |-> <<"a.*">>, files |-> <<"a">>],
     [calls |-> <<"_pytest.*", "pytest.*">>, files |-> <<"_pytest", "pytest">>],
     [calls |-> <<"a.b", "matplotlib.*", "pytest.*">>,
      files |-> <<"a.b", "matplotlib", "pytest">>]}

\* the standard plugins active besides this one, in registration order
PluginLists ==
    {<<"implicit-imports", "hinted-mods", "numpy">>,
     <<"numpy", "hinted-mods", "implicit-imports">>,
     <<"hinted-mods", "numpy">>}

OtherPlugins == {"implicit-imports", "numpy"}

\* the modules other plugins have an opinion about
AdvisedNames == {"a", "b", "pytest.x", "pkg_resources"}

NoAdvice == [q \in OtherPlugins |-> [n \in QueryNames |-> "None"]]

\* what the other plugins answer: nothing, one opinion of one plugin, or
\* one opinion each of two plugins about the same module
Advices ==
    {NoAdvice}
    \cup {[NoAdvice EXCEPT ![q][n] = o] :
            q \in OtherPlugins, n \in AdvisedNames, o \in {"KEEP", "DROP"}}
    \cup {[NoAdvice EXCEPT !["implicit-imports"][n] = o1, !["numpy"][n] = o2] :
            n \in AdvisedNames, o1 \in {"KEEP", "DROP"}, o2 \in {"KEEP", "DROP"}}

\* what getImportsByFullname knows
KnownImports ==
    {[raises |-> FALSE, names |-> [k \in QueryPackages |-> {}]],
     [raises |-> FALSE,
      names |-> [k \in QueryPackages |->
                    IF k = "a" THEN {"a.b", "a.c", "pytest.x"} ELSE {}]],
     [raises |-> TRUE, names |-> [k \in QueryPackages |-> {}]]}

\* __init__: the artifact is loaded, matplotlib cleaned up, the caches empty
InitPolicy ==
    /\ \E art \in Artifacts :
          IF "matplotlib.backends" \notin Range(art.files)
          THEN /\ self_import_calls = WithoutMatplotlib(art.calls)
               /\ self_import_files = WithoutMatplotlib(art.files)
          ELSE /\ self_import_calls = art.calls
               /\ self_import_files = art.files
    /\ implicit_imports = {}
    /\ ignored_modules = {}
    /\ msg_count = [q \in OtherPlugins |-> 0]
    /\ implicit_imports_plugin = ""
    /\ active_plugins \in PluginLists
    /\ advice \in Advices
    /\ known_imports \in KnownImports
    /\ ppc = "ready"
    /\ shown = <<>>
    /\ answers = <<>>
    /\ IdleAnalyzer
    /\ IdleReduce
    /\ IdleRunner
    /\ IdleShim

NextPolicy == \E full_name \in QueryNames : onModuleEncounter(full_name)

SpecPolicy == InitPolicy /\ [][NextPolicy]_vars

(***************************************************************************)
(* A compilation of many modules that other plugins keep                    *)
(***************************************************************************)

\* the number of modules of the compilation
MaxModules == 23

\* the modules, in the order Nuitka finds them
ModuleNo(i) ==
    "m" \o SubSeq(Digits, (i \div 10) + 1, (i \div 10) + 1)
        \o SubSeq(Digits, (i % 10) + 1, (i % 10) + 1)

Modules == {ModuleNo(i) : i \in 1..MaxModules}

\* what a plugin answers for module number i: it abstains on all, keeps all,
\* keeps every second one, or keeps and drops by turns
AdvicePatterns == {"none", "keep", "odd", "turns"}

AdviceOf(pattern, i) ==
    IF pattern = "keep" THEN "KEEP"
    ELSE IF pattern = "odd" THEN (IF i % 2 = 1 THEN "KEEP" ELSE "None")
    ELSE IF pattern = "turns" THEN (IF i % 2 = 1 THEN "DROP" ELSE "KEEP")
    ELSE "None"

ManyAdvices ==
    {[q \in OtherPlugins |->
        [n \in Modules |->
            AdviceOf(p[q], CHOOSE i \in 1..MaxModules : ModuleNo(i) = n)]] :
     p \in [OtherPlugins -> AdvicePatterns]}

\* __init__ with an empty accept-list
InitMany ==
    /\ self_import_calls = <<>>
    /\ self_import_files = <<>>
    /\ implicit_imports = {}
    /\ ignored_modules = {}
    /\ msg_count = [q \in OtherPlugins |-> 0]
    /\ implicit_imports_plugin = ""
    /\ active_plugins \in PluginLists
    /\ advice \in ManyAdvices
    /\ known_imports = [raises |-> FALSE, names |-> <<>>]
    /\ ppc = "ready"
    /\ shown = <<>>
    /\ answers = <<>>
    /\ IdleAnalyzer
    /\ IdleReduce
    /\ IdleRunner
    /\ IdleShim

\* the modules asked about so far: each is in one of the caches
Asked == Cardinality(implicit_imports \cup ignored_modules)

\* Nuitka asks the plugin about the next module it finds, or once more about
\* a module it asked about before; the queries are not observed
onModuleEncounterMany(full_name) ==
    /\ ppc = "ready"
    /\ \E i \in 1..MaxModules : i <= Asked + 1 /\ full_name = ModuleNo(i)
    /\ Leaves(Decide(full_name))
    /\ UNCHANGED <<self_import_calls, self_import_files, active_plugins,
                   advice, known_imports, answers>>
    /\ UNCHANGED <<avars, rvars, nvars, svars>>

NextMany == \E full_name \in Modules : onModuleEncounterMany(full_name)

SpecMany == InitMany /\ [][NextMany]_vars

(***************************************************************************)
(* From the logfile to the answers of the plugin                            *)
(***************************************************************************)

\* the logs analyzed before a compilation: one import at top level, the
\* logs reader rejects, and nested imports, complete or cut
HintLogs == PairLogs \cup OddLogs \cup Traces

\* the module names of the RESULT records of the log
ResolvedNames ==
    {ParseLine(log[i]).rec.f2 :
        i \in {k \in 1..Len(log) : ParseLine(log[k]).status = "ok"
                                   /\ ParseLine(log[k]).rec.type = "RESULT"}}

\* get-hints.py is run on a script, the compilation not yet started
InitHints ==
    /\ log \in HintLogs
    /\ line_number = 0
    /\ stack = <<>>
    /\ import_calls = <<>>
    /\ import_files = <<>>
    /\ pc = "run"
    /\ artifact = NoArtifact
    /\ closings = <<>>
    /\ IdleReduce
    /\ IdlePolicy
    /\ IdleRunner
    /\ IdleShim

\* HintedModsPlugin.__init__ lines 146-177: the artifact myexit has written
\* is loaded and cleaned of matplotlib, the caches are empty; no other
\* plugin has an opinion and 'implicit-imports' knows no implicit import
PluginInit ==
    /\ pc = "done"
    /\ artifact.written
    /\ ppc = "idle"
    /\ IF "matplotlib.backends" \notin Range(artifact.files)
       THEN /\ self_import_calls' = WithoutMatplotlib(artifact.calls)
            /\ self_import_files' = WithoutMatplotlib(artifact.files)
       ELSE /\ self_import_calls' = artifact.calls
            /\ self_import_files' = artifact.files
    /\ implicit_imports' = {}
    /\ ignored_modules' = {}
    /\ msg_count' = [q \in OtherPlugins |-> 0]
    /\ implicit_imports_plugin' = ""
    /\ active_plugins' \in PluginLists
    /\ advice' = [q \in OtherPlugins |-> [n \in ResolvedNames |-> "None"]]
    /\ known_imports' =
          [raises |-> FALSE,
           names |-> [k \in {getPackageName(n) : n \in ResolvedNames} |-> {}]]
    /\ ppc' = "ready"
    /\ UNCHANGED <<shown, answers>>
    /\ UNCHANGED <<avars, rvars, nvars, svars>>

NextHints ==
    \/ Next
    \/ PluginInit
    \/ \E full_name \in ResolvedNames : onModuleEncounter(full_name)

SpecHints == InitHints /\ [][NextHints]_vars

(***************************************************************************)
(* get-hints.py: the main program, the traced process and its logfiles      *)
(***************************************************************************)

\* the longest timeout, in ticks of the clock
MaxTimeout == 2

\* the most lines a process writes to its logfile
MaxFragLines == 2

\* the traced process (the invoker script) and a process it starts that runs
\* the invoker script again
Pids == {"child", "sub"}

NoFragment == [exists |-> FALSE, lines |-> 0]

\* some process still runs, its logfile open for writing
Busy == \E p \in Pids : procs[p] = "running"

\* lines 363-372 and 521-535: timeout set, invoker script written
InitRunner ==
    /\ platform \in {"posix", "windows"}
    /\ timeout \in 0..MaxTimeout
    /\ elapsed = 0
    /\ procs = [p \in Pids |-> "none"]
    /\ frags = [p \in Pids |-> NoFragment]
    /\ rpc = "start"
    /\ log_files = <<>>
    /\ joined = <<>>
    /\ IdleAnalyzer
    /\ IdleReduce
    /\ IdlePolicy
    /\ IdleShim

\* line 538: the traced process starts and opens its logfile (line 506)
Popen ==
    /\ rpc = "start"
    /\ procs' = [procs EXCEPT !["child"] = "running"]
    /\ frags' = [frags EXCEPT !["child"] = [exists |-> TRUE, lines |-> 0]]
    /\ rpc' = "wait"
    /\ UNCHANGED <<platform, timeout, elapsed, log_files, joined>>
    /\ UNCHANGED <<avars, rvars, pvars, svars>>

\* lines 538-542: Popen raises, the exception is caught
PopenFails ==
    /\ rpc = "start"
    /\ rpc' = "list"
    /\ UNCHANGED <<platform, timeout, elapsed, procs, frags, log_files, joined>>
    /\ UNCHANGED <<avars, rvars, pvars, svars>>

\* the shim of a running process writes a line to its logfile
ProcWrites(p) ==
    /\ procs[p] = "running"
    /\ frags[p].lines < MaxFragLines
    /\ frags' = [frags EXCEPT ![p].lines = @ + 1]
    /\ UNCHANGED <<platform, timeout, elapsed, procs, rpc, log_files, joined>>
    /\ UNCHANGED <<avars, rvars, pvars, svars>>

\* the traced script starts a process that runs the invoker script again,
\* which opens a logfile of its own (line 505-506)
ProcSpawns ==
    /\ procs["child"] = "running"
    /\ procs["sub"] = "none"
    /\ procs' = [procs EXCEPT !["sub"] = "running"]
    /\ frags' = [frags EXCEPT !["sub"] = [exists |-> TRUE, lines |-> 0]]
    /\ UNCHANGED <<platform, timeout, elapsed, rpc, log_files, joined>>
    /\ UNCHANGED <<avars, rvars, pvars, svars>>

\* a process ends; the traced process ends after the process it started
ProcExits(p) ==
    /\ procs[p] = "running"
    /\ p = "child" => procs["sub"] # "running"
    /\ procs' = [procs EXCEPT ![p] = "exited"]
    /\ UNCHANGED <<platform, timeout, elapsed, frags, rpc, log_files, joined>>
    /\ UNCHANGED <<avars, rvars, pvars, svars>>

\* time passes while proc.wait(timeout=timeout) waits
Tick ==
    /\ rpc = "wait"
    /\ timeout > 0
    /\ elapsed < timeout
    /\ procs["child"] = "running"
    /\ elapsed' = elapsed + 1
    /\ UNCHANGED <<platform, timeout, procs, frags, rpc, log_files, joined>>
    /\ UNCHANGED <<avars, rvars, pvars, svars>>

\* line 539: proc.wait returns, the traced process has ended
WaitReturns ==
    /\ rpc = "wait"
    /\ procs["child"] = "exited"
    /\ rpc' = "list"
    /\ UNCHANGED <<platform, timeout, elapsed, procs, frags, log_files, joined>>
    /\ UNCHANGED <<avars, rvars, pvars, svars>>

\* lines 539-542: proc.wait raises TimeoutExpired, which is caught; the
\* traced process is left running
WaitTimesOut ==
    /\ rpc = "wait"
    /\ timeout > 0
    /\ elapsed = timeout
    /\ procs["child"] = "running"
    /\ rpc' = "list"
    /\ UNCHANGED <<platform, timeout, elapsed, procs, frags, log_files, joined>>
    /\ UNCHANGED <<avars, rvars, pvars, svars>>

\* lines 545-546: the logfiles found by os.listdir, in the order it gives
ListLogs ==
    /\ rpc = "list"
    /\ \E order \in {<<"child", "sub">>, <<"sub", "child">>} :
          log_files' = SelectSeq(order, LAMBDA p : frags[p].exists)
    /\ rpc' = "join"
    /\ UNCHANGED <<platform, timeout, elapsed, procs, frags, joined>>
    /\ UNCHANGED <<avars, rvars, pvars, svars>>

\* lines 550-554: the lines of the next logfile are read and written to the
\* final logfile
ReadFragment ==
    /\ rpc = "join"
    /\ log_files # <<>>
    /\ joined' = Append(joined, [pid |-> Head(log_files), op |-> "read",
                                 lines |-> frags[Head(log_files)].lines,
                                 busy |-> Busy])
    /\ rpc' = "remove"
    /\ UNCHANGED <<platform, timeout, elapsed, procs, frags, log_files>>
    /\ UNCHANGED <<avars, rvars, pvars, svars>>

\* line 555: os.remove(full_logname); on Windows a file that a process holds
\* open cannot be removed and os.remove raises PermissionError
RemoveFragment ==
    /\ rpc = "remove"
    /\ LET p == Head(log_files)
       IN  /\ joined' = Append(joined, [pid |-> p, op |-> "remove",
                                        lines |-> frags[p].lines,
                                        busy |-> Busy])
           /\ IF platform = "windows" /\ procs[p] = "running"
              THEN /\ rpc' = "raise"
                   /\ UNCHANGED <<frags, log_files>>
              ELSE /\ rpc' = "join"
                   /\ frags' = [frags EXCEPT ![p].exists = FALSE]
                   /\ log_files' = Tail(log_files)
    /\ UNCHANGED <<platform, timeout, elapsed, procs>>
    /\ UNCHANGED <<avars, rvars, pvars, svars>>

\* line 558: all logfiles are joined, myexit analyzes the final logfile
StartAnalysis ==
    /\ rpc = "join"
    /\ log_files = <<>>
    /\ rpc' = "analyze"
    /\ UNCHANGED <<platform, timeout, elapsed, procs, frags, log_files, joined>>
    /\ UNCHANGED <<avars, rvars, pvars, svars>>

\* lines 558-561: myexit returns and the files are removed, or it ends the
\* program
EndAnalysis ==
    /\ rpc = "analyze"
    /\ rpc' \in {"done", "exit"}
    /\ UNCHANGED <<platform, timeout, elapsed, procs, frags, log_files, joined>>
    /\ UNCHANGED <<avars, rvars, pvars, svars>>

\* the steps of the main program
MainProgram ==
    \/ Popen
    \/ PopenFails
    \/ WaitReturns
    \/ WaitTimesOut
    \/ ListLogs
    \/ ReadFragment
    \/ RemoveFragment
    \/ StartAnalysis
    \/ EndAnalysis

\* the steps of the traced process and of the process it starts
TracedProcesses ==
    \/ \E p \in Pids : ProcWrites(p)
    \/ ProcSpawns
    \/ \E p \in Pids : ProcExits(p)

NextRunner ==
    \/ MainProgram
    \/ TracedProcesses
    \/ Tick

SpecRunner == InitRunner /\ [][NextRunner]_vars

\* the main program keeps running and time keeps passing; nothing is assumed
\* of the traced processes
SpecRunnerLive ==
    SpecRunner /\ WF_vars(MainProgram) /\ WF_vars(Tick)

(***************************************************************************)
(* get-hints.py: the invoker script, _ourimport                             *)
(***************************************************************************)

\* the deepest nesting of imports and the most lines written in a run
MaxDepth == 2
MaxShimLog == 4

\* the modules the traced script and the modules it loads ask for
ImportNames == {"m", "n"}

\* "%i" of a nesting level
LevelText(n) == SubSeq(Digits, n + 1, n + 1)

\* the lines of lines 460, 479 and 485
CallLine(name) == LevelText(indentation + 1) \o ";CALL;" \o name \o ";None"

ExceptionLine(name) ==
    LevelText(indentation) \o ";EXCEPTION;No module named '" \o name \o "'"

ResultLine(name) ==
    LevelText(indentation) \o ";RESULT;" \o name \o ";$PYTHONPATH/" \o name
    \o ".py"

\* line 475 binds builtins.__import__ to _ourimport again, whatever line 453
\* had bound it to for the time _ourimport writes its CALL
HookWhenDelegating_asEntered(bound) == bound

HookWhenDelegating(bound) == "_ourimport"

\* lines 505-512: the logfile is opened, the tracing enabled (line 500 binds
\* builtins.__import__ to _ourimport), and the script about to be executed
InitShim ==
    /\ logfile = <<>>
    /\ indentation = 0
    /\ frames = <<>>
    /\ spc = "tracing"
    /\ import_hook = "_ourimport"
    /\ entered = <<>>
    /\ IdleAnalyzer
    /\ IdleReduce
    /\ IdlePolicy
    /\ IdleRunner

\* lines 453-477: the script, or a module being loaded, executes an import
\* statement; _ourimport counts the level up, writes the CALL and delegates
ImportBegins(name) ==
    /\ spc = "tracing"
    /\ Len(frames) < MaxDepth
    /\ Len(logfile) < MaxShimLog
    /\ indentation' = indentation + 1
    /\ logfile' = Append(logfile, CallLine(name))
    /\ frames' = Append(frames, name)
    /\ entered' = Append(entered, indentation)
    /\ import_hook' = HookWhenDelegating("original_import")
    /\ spc' = spc
    /\ UNCHANGED <<avars, rvars, pvars, nvars>>

\* lines 477-491: original_import returned the module; the RESULT is
\* written and the level counted down
ImportReturns ==
    /\ spc = "tracing"
    /\ frames # <<>>
    /\ logfile' = Append(logfile, ResultLine(frames[Len(frames)]))
    /\ indentation' = indentation - 1
    /\ frames' = SubSeq(frames, 1, Len(frames) - 1)
    /\ entered' = SubSeq(entered, 1, Len(entered) - 1)
    /\ import_hook' = "_ourimport"
    /\ spc' = spc
    /\ UNCHANGED <<avars, rvars, pvars, nvars>>

\* lines 477-481 and 490-491: original_import raised exc, an ImportError or
\* any other exception; only the ImportError is written, the level is
\* counted down and the exception goes on to the code that asked; line 487
\* is not reached and builtins.__import__ stays as it is
Raised(exc) ==
    /\ frames # <<>>
    /\ logfile' = IF exc = "ImportError"
                  THEN Append(logfile, ExceptionLine(frames[Len(frames)]))
                  ELSE logfile
    /\ indentation' = indentation - 1
    /\ frames' = SubSeq(frames, 1, Len(frames) - 1)
    /\ entered' = SubSeq(entered, 1, Len(entered) - 1)
    /\ import_hook' = import_hook
    /\ spc' = exc

\* the module asked for is not found, or its code raises
ImportRaises(exc) ==
    /\ spc = "tracing"
    /\ Raised(exc)
    /\ UNCHANGED <<avars, rvars, pvars, nvars>>

\* the module that asked does not catch the exception: the import of that
\* module raises it in turn
RaisesThrough ==
    /\ spc \in {"ImportError", "other"}
    /\ Raised(spc)
    /\ UNCHANGED <<avars, rvars, pvars, nvars>>

\* the code that asked catches the exception and goes on
ExceptionCaught ==
    /\ spc \in {"ImportError", "other"}
    /\ spc' = "tracing"
    /\ UNCHANGED <<logfile, indentation, frames, import_hook, entered>>
    /\ UNCHANGED <<avars, rvars, pvars, nvars>>

\* line 512: exec(source) is over, by its end or by an exception the script
\* does not catch
ScriptEnds ==
    /\ spc \in {"tracing", "ImportError", "other"}
    /\ frames = <<>>
    /\ spc' = "ended"
    /\ UNCHANGED <<logfile, indentation, frames, import_hook, entered>>
    /\ UNCHANGED <<avars, rvars, pvars, nvars>>

NextShim ==
    \/ \E name \in ImportNames : ImportBegins(name)
    \/ ImportReturns
    \/ \E exc \in {"ImportError", "other"} : ImportRaises(exc)
    \/ RaisesThrough
    \/ ExceptionCaught
    \/ ScriptEnds

SpecShim == InitShim /\ [][NextShim]_vars

(***************************************************************************)
(* Properties of call_analyzer, stated on the activations that ended        *)
(***************************************************************************)

\* the activations of call_analyzer on a CALL record that a RESULT closed
ResultClosings ==
    {c \in Range(closings) :
        c.closedBy # 0 /\ c.call.type = "CALL" /\ c.text.type = "RESULT"}

\* the names of the call entries an activation appended, in order
NamesOf(c) == [i \in 1..Len(c.calls) |-> c.calls[i][1]]

\* the from-list of the CALL: absent, or the items named
NoList(c) == c.call.isNone
ListOf(c) == c.call.implist

\* the source is a plain .py file outside the accept_always packages
PlainSource(c) ==
    /\ c.text.f2 # "__main__"
    /\ EndsWith(c.text.f3, ".py")
    /\ ~StartsWith(c.text.f2, "win32com")
    /\ c.files # <<>>
    /\ c.files[1] \notin accept_always

\* x is a proper prefix of y
ProperPrefix(x, y) == StartsWith(y, x) /\ x # y

\* C1 as stated: when RESULT is a proper prefix of CALLED and a name list is
\* present, the entries are RESULT and RESULT.item for every item (for
\* CALLED pkg.sub, list a, b and RESULT pkg: pkg, pkg.a, pkg.b)
C1_ItemsUnderResult ==
    \A c \in ResultClosings :
        (PlainSource(c) /\ ProperPrefix(c.text.f2, c.call.f2)
            /\ ~NoList(c) /\ ListOf(c) # <<>>)
        => NamesOf(c) = <<c.text.f2>> \o Under(c.text.f2, ListOf(c))

\* C1 amended: when RESULT is a proper prefix of CALLED and a name list is
\* present, the entries are RESULT and CALLED.item for every item (for
\* CALLED pkg.sub, list a, b and RESULT pkg: pkg, pkg.sub.a, pkg.sub.b)
C1_ItemsUnderCalled ==
    \A c \in ResultClosings :
        (PlainSource(c) /\ ProperPrefix(c.text.f2, c.call.f2)
            /\ ~NoList(c) /\ ListOf(c) # <<>>)
        => NamesOf(c) = <<c.text.f2>> \o Under(c.call.f2, ListOf(c))

\* the import of C1 was analyzed
C1_Witness ==
    \E c \in ResultClosings :
        /\ c.call.f2 = "pkg.sub" /\ ListOf(c) = <<"a", "b">>
        /\ c.text.f2 = "pkg" /\ c.text.f3 = "$PYTHONPATH/pkg/__init__.py"
        /\ NamesOf(c) = <<"pkg", "pkg.sub.a", "pkg.sub.b">>

\* one name is a prefix or a suffix of the other, in either direction
Contained(x, y) ==
    \/ StartsWith(x, y) \/ StartsWith(y, x)
    \/ EndsWith(x, y) \/ EndsWith(y, x)

\* C2: with CALLED non-empty, CALLED and RESULT related by prefix or suffix
\* in either direction and a name list present, the entries are RESULT and
\* true_name.item for every item, true_name being RESULT when it is the
\* longer of the two and CALLED otherwise
C2_ContainedNames ==
    \A c \in ResultClosings :
        (PlainSource(c) /\ Len(c.call.f2) > 0
            /\ Contained(c.call.f2, c.text.f2)
            /\ ~NoList(c) /\ ListOf(c) # <<>>)
        => LET true_name == IF Len(c.text.f2) > Len(c.call.f2)
                            THEN c.text.f2 ELSE c.call.f2
           IN  NamesOf(c) = <<c.text.f2>> \o Under(true_name, ListOf(c))

\* the source is no shared library
NotShared(c) == ~hasFilenameExtension(c.text.f3, SharedLibrarySuffix)

\* what the empty-CALLED rule gives for a RESULT name and a from-list
EmptyCalledExpected(c) ==
    IF NoList(c) THEN <<c.text.f2>>
    ELSE <<c.text.f2>> \o Under(c.text.f2, ListOf(c))

\* C3 as stated: a CALL with empty name closed by a RESULT that is not
\* built-in, not __main__ and no shared library gives exactly RESULT without
\* a list, RESULT.* for the wildcard list, and else RESULT plus RESULT.item
\* for every item
C3_EmptyCalled ==
    \A c \in ResultClosings :
        (Len(c.call.f2) = 0 /\ c.text.f2 # "__main__"
            /\ c.text.f3 # "built-in" /\ NotShared(c))
        => NamesOf(c) = EmptyCalledExpected(c)

\* C3 amended: the same for a RESULT whose normalized file is, in addition,
\* none of the accept_always packages
C3_EmptyCalledOutsideAcceptAlways ==
    \A c \in ResultClosings :
        (Len(c.call.f2) = 0 /\ c.text.f2 # "__main__"
            /\ c.text.f3 # "built-in" /\ NotShared(c)
            /\ c.files # <<>> /\ c.files[1] \notin accept_always)
        => NamesOf(c) = EmptyCalledExpected(c)

\* an empty-named CALL with a list of two names was closed by os.path
C3_Witness ==
    \E c \in ResultClosings :
        /\ Len(c.call.f2) = 0 /\ ListOf(c) = <<"a", "b">>
        /\ c.text.f2 = "os.path" /\ c.text.f3 = "$PYTHONPATH/pkg.py"
        /\ NamesOf(c) = <<"os.path", "os.path.a", "os.path.b">>

\* every activation a RESULT closed, whatever record it was entered with
AnyResultClosings ==
    {c \in Range(closings) : c.closedBy # 0 /\ c.text.type = "RESULT"}

\* C4 as stated: a RESULT whose source file has the shared-library suffix, or
\* whose normalized file is an accept_always package, gives exactly the two
\* entries RESULT and RESULT.*, for every CALLED and every list
C4_SharedGivesWildcard ==
    \A c \in AnyResultClosings :
        (\/ hasFilenameExtension(c.text.f3, SharedLibrarySuffix)
         \/ (c.files # <<>> /\ c.files[1] \in accept_always))
        => NamesOf(c) = <<c.text.f2, c.text.f2 \o ".*">>

\* C4 amended: the same, the shared-library suffix counting only for a
\* RESULT whose name does not start with win32com
C4_SharedGivesWildcardExceptWin32com ==
    \A c \in AnyResultClosings :
        (\/ (hasFilenameExtension(c.text.f3, SharedLibrarySuffix)
                /\ ~StartsWith(c.text.f2, "win32com"))
         \/ (c.files # <<>> /\ c.files[1] \in accept_always))
        => NamesOf(c) = <<c.text.f2, c.text.f2 \o ".*">>

\* a shared library and an accept_always package were both imported with a
\* name list
C4_Witness ==
    \E c \in ResultClosings :
        /\ ListOf(c) = <<"a", "b">> /\ c.call.f2 = "pkg.sub"
        /\ \/ c.text.f3 = "$PYTHONPATH/ext.so" /\ c.text.f2 = "pkg"
           \/ c.text.f3 = "$PYTHONPATH/pytest.py" /\ c.text.f2 = "pytest"
        /\ NamesOf(c) = <<c.text.f2, c.text.f2 \o ".*">>

\* C5: a RESULT record whose source descriptor is built-in adds no entry to
\* the call list and no entry to the file list, whatever the CALL it closes
C5_BuiltinSuppressed ==
    \A c \in AnyResultClosings :
        c.text.f3 = "built-in" => c.calls = <<>> /\ c.files = <<>>

\* a built-in RESULT closed a CALL that asked for names of win32com.client
C5_Witness ==
    \E c \in ResultClosings :
        /\ c.text.f3 = "built-in" /\ c.text.f2 = "win32com.client"
        /\ ListOf(c) = <<"a", "b">>
        /\ import_calls = <<>> /\ import_files = <<>>

(***************************************************************************)
(* The bracket structure of a log, read off the kinds and depths alone      *)
(***************************************************************************)

\* kind and depth of line i, "" when the line is no record
KindAt(i)  == LET r == ParseLine(log[i])
              IN  IF r.status = "ok" THEN r.rec.type ELSE ""
DepthAt(i) == ParseLine(log[i]).rec.level

\* ClosingOf(i, d): the line that closes the CALL of depth d at line i, after
\* complete pairs of depth d + 1; 0 when the bracket is broken
RECURSIVE ClosingOf(_, _), CloserFrom(_, _)
ClosingOf(i, d) ==
    IF i > Len(log) \/ KindAt(i) # "CALL" \/ DepthAt(i) # d THEN 0
    ELSE CloserFrom(i + 1, d)

CloserFrom(j, d) ==
    IF j > Len(log) \/ KindAt(j) = "" THEN 0
    ELSE IF KindAt(j) = "CALL"
         THEN LET e == ClosingOf(j, d + 1)
              IN  IF e = 0 THEN 0 ELSE CloserFrom(e + 1, d)
         ELSE IF DepthAt(j) = d THEN j ELSE 0

\* the log from line i on is a sequence of complete pairs of depth 1
RECURSIVE BracketedFrom(_)
BracketedFrom(i) ==
    IF i > Len(log) THEN TRUE
    ELSE LET e == ClosingOf(i, 1)
         IN  e # 0 /\ BracketedFrom(e + 1)

WellBracketed == BracketedFrom(1)

\* every CALL line with the line that brackets it
Brackets ==
    {<<i, ClosingOf(i, DepthAt(i))>> :
        i \in {k \in 1..Len(log) : KindAt(k) = "CALL"}}

\* every RESULT of the log names a source whose module type is known
KnownSources ==
    \A i \in 1..Len(log) :
        KindAt(i) = "RESULT"
        => LET r == ParseLine(log[i]).rec
           IN  \/ r.f2 = "__main__"
               \/ r.f3 = "built-in"
               \/ ~normalize_file(EffectiveFile(r.f2, r.f3)).fatal

\* C6: on a well-bracketed log of records with known sources the
\* reader/call_analyzer loop of myexit ends without a fatal exit, has read
\* every line once, and has closed each CALL with the RESULT or EXCEPTION of
\* the same depth that brackets it
C6_WellBracketedAnalyzed ==
    (pc \in {"done", "exit", "raise"} /\ WellBracketed /\ KnownSources)
    => /\ pc = "done"
       /\ line_number = Len(log) + 1
       /\ {<<c.line, c.closedBy>> : c \in Range(closings)} = Brackets

\* a well-bracketed log with a nested import was analyzed to the end
C6_NestedAnalyzed ==
    /\ pc = "done" /\ WellBracketed /\ Len(log) = 4
    /\ {<<c.line, c.closedBy>> : c \in Range(closings)} = {<<1, 4>>, <<2, 3>>}

(***************************************************************************)
(* Properties of clean_json and get_checklist                              *)
(***************************************************************************)

\* C7: for every sorted, duplicate-free list of call names, clean_json of
\* clean_json of the list equals clean_json of the list
C7_CleanIdempotent == stage = 2 => cleaned_again = cleaned_list

\* a list that both steps of clean_json shorten was reduced twice
C7_Witness ==
    /\ stage = 2
    /\ netto = <<"a", "a.*", "a.b.*", "a.c">>
    /\ cleaned_list = <<"a.*">>
    /\ cleaned_again = <<"a.*">>

\* C8: for every sorted, duplicate-free call list and every module name, the
\* name passes the checklist test against the list if and only if it passes
\* it against clean_json of the list
C8_ReductionKeepsVerdict ==
    verdict # NoVerdict => (verdict.raw <=> verdict.reduced)

\* the wildcard forms of all prefixes of a dotted name, shortest first, the
\* full name included
WildcardsOfPrefixes(name) ==
    LET parts == Split(name, ".")
    IN  [i \in 1..Len(parts) |-> Join(SubSeq(parts, 1, i), ".") \o ".*"]

\* C9: get_checklist of a dotted name is the name followed by the wildcard
\* form of every prefix from shortest to longest, the full name included:
\* for a.b.c it is a.b.c, a.*, a.b.*, a.b.c.*
C9_ChecklistOfPrefixes ==
    verdict # NoVerdict
    => verdict.checklist = <<verdict.name>> \o WildcardsOfPrefixes(verdict.name)

(***************************************************************************)
(* Properties of onModuleEncounter, stated on the queries answered          *)
(***************************************************************************)

\* C10: once a module name was answered DROP, every later query for the same
\* name is answered DROP and no other plugin's onModuleEncounter is called
\* during it
C10_DropShortCircuits ==
    \A i, j \in 1..Len(answers) :
        (i < j /\ answers[i].name = answers[j].name /\ answers[i].rc = "DROP")
        => /\ answers[j].rc = "DROP"
           /\ answers[j].consulted = <<>>

\* a module dropped by another plugin was asked about again
C10_Witness ==
    \E i, j \in 1..Len(answers) :
        /\ i < j /\ answers[i].name = answers[j].name
        /\ answers[i].rc = "DROP" /\ answers[i].consulted # <<>>
        /\ answers[i].reason # "module is not used"
        /\ answers[j].rc = "DROP" /\ answers[j].consulted = <<>>

\* what supports the inclusion of the module of query a: a cached or a
\* reported implicit import, a plugin that wants it, a hard-coded exception,
\* a hint or a recursed-to child
Evidence(a) ==
    LET package == getPackageName(a.name)
    IN  \/ a.name \in a.implicit_before
        \/ \E k \in 1..Len(Delegates) : advice[Delegates[k]][a.name] = "KEEP"
        \/ a.name = "cv2"
        \/ StartsWith(getTopLevelPackageName(a.name), "pywin")
        \/ Hinted(a.name, self_import_calls)
        \/ check_dependents(a.name, self_import_files)
        \/ (Len(package) > 0 /\ a.name \in known_imports.names[package])

\* C11 as stated: every query is answered KEEP or DROP, never an abstention
\* and never an abort, and DROP when no evidence supports inclusion
C11_AlwaysDefinite ==
    \A i \in 1..Len(answers) :
        /\ answers[i].rc \in {"KEEP", "DROP"}
        /\ ~Evidence(answers[i]) => answers[i].rc = "DROP"

\* C11 amended: a query abstains exactly for the modules of pkg_resources;
\* it aborts only when the 'implicit-imports' plugin is not active or its
\* getImportsByFullname is incompatible; every other query is answered KEEP
\* or DROP, and DROP when no evidence supports inclusion
C11_DefiniteButForAbstainAndAbort ==
    \A i \in 1..Len(answers) :
        LET a == answers[i]
        IN  /\ a.rc \in {"KEEP", "DROP", "None", "exit"}
            /\ a.rc = "None"
               <=> getTopLevelPackageName(a.name) = "pkg_resources"
            /\ a.rc = "exit"
               => \/ \A k \in 1..Len(active_plugins) :
                        active_plugins[k] # "implicit-imports"
                  \/ (known_imports.raises /\ Len(getPackageName(a.name)) > 0)
            /\ (a.rc \in {"KEEP", "DROP"} /\ ~Evidence(a)) => a.rc = "DROP"

\* a module nothing speaks for was asked about for the first time, all other
\* plugins abstained and it was dropped with a message
C11_Witness ==
    \E i \in 1..Len(answers) :
        /\ ~Evidence(answers[i])
        /\ answers[i].name \notin answers[i].ignored_before
        /\ answers[i].rc = "DROP"
        /\ answers[i].reason = "module is not used"
        /\ answers[i].consulted = Delegates
        /\ answers[i].infos = <<drop_msg(answers[i].name,
                                         getPackageName(answers[i].name))>>

(***************************************************************************)
(* Properties of myexit on logs that are cut short or out of step           *)
(***************************************************************************)

\* the analysis of the log has ended, one way or the other
Ended == pc \in {"done", "exit", "raise"}

\* no RESULT or EXCEPTION record of the log has a field that reads CALL
NoCallNamed ==
    \A i \in 1..Len(log) :
        KindAt(i) \in {"RESULT", "EXCEPTION"} => ~HasCALL(ParseLine(log[i]).rec)

\* the log from line i on, with open CALLs of depths 1..open, is the
\* beginning of a well-bracketed stream
RECURSIVE PrefixFrom(_, _)
PrefixFrom(i, open) ==
    IF i > Len(log) THEN TRUE
    ELSE IF KindAt(i) = "CALL"
    THEN DepthAt(i) = open + 1 /\ PrefixFrom(i + 1, open + 1)
    ELSE IF KindAt(i) \in {"RESULT", "EXCEPTION"}
    THEN open >= 1 /\ DepthAt(i) = open /\ PrefixFrom(i + 1, open - 1)
    ELSE FALSE

WellBracketedPrefix == PrefixFrom(1, 0)

\* C12: when the log is any prefix of a well-bracketed stream, possibly
\* ending inside open CALLs, myexit ends without a fatal exit and has written
\* the artifact with its calls and its files
C12_PartialTraceGivesArtifact ==
    (Ended /\ WellBracketedPrefix /\ KnownSources /\ NoCallNamed)
    => pc = "done" /\ artifact.written

\* a log cut after a complete nested pair, inside the outer CALL, was
\* analyzed and the artifact holds the nested import
C12_CutAfterNestedPair ==
    /\ pc = "done" /\ artifact.written
    /\ log = <<"1;CALL;a;None", "2;CALL;b;('c',)",
               "2;RESULT;a.b;$PYTHONPATH/a/b.py">>
    /\ artifact.files = <<"a.b">>

(***************************************************************************)
(* Properties of the main program                                          *)
(***************************************************************************)

\* C13: with a positive timeout the main program stops waiting for the
\* traced process, whether that ends or not, and eventually reaches the
\* joining of the logfiles and the analysis
C13_BoundedWait ==
    (timeout > 0) => <>(rpc \in {"analyze", "done", "exit"})

\* the wait timed out on a traced process that still runs, and the analysis
\* was reached
C13_AnalysisAfterTimeout ==
    /\ timeout > 0 /\ elapsed = timeout
    /\ procs["child"] = "running"
    /\ rpc = "analyze"

\* C20: the main program reads and removes a logfile only when the traced
\* process and all its subprocesses have ended, the timeout path included
C20_NoConcurrentAccess ==
    \A i \in 1..Len(joined) : ~joined[i].busy

\* the traced process ended before the timeout, and its logfile was read and
\* removed after that
C20_JoinedAfterExit ==
    /\ timeout > 0 /\ elapsed < timeout
    /\ procs["child"] = "exited"
    /\ Len(joined) = 2
    /\ joined[1].op = "read" /\ joined[2].op = "remove"
    /\ ~joined[1].busy /\ ~joined[2].busy

(***************************************************************************)
(* Properties of call_analyzer on closing records of another depth          *)
(***************************************************************************)

\* the closing record text, had it been written at the depth of call_list
AtDepthOf(call_list, text) == [text EXCEPT !.level = call_list.level]

\* the activation on top of the stack has just aborted on the record it read
AbortedOnClosing ==
    /\ pc = "exit"
    /\ stack # <<>>
    /\ line_number <= Len(log)
    /\ ParseLine(log[line_number]).status = "ok"

EndsInsideCall == WellBracketedPrefix /\ ~WellBracketed

\* C15: when the log ends while some CALL is still open, directly after the
\* CALL or after complete nested pairs, the analysis is aborted and myexit
\* does not end normally
C15_PrematureEndFatal ==
    (Ended /\ EndsInsideCall /\ KnownSources /\ NoCallNamed) => pc = "exit"

\* the log ends directly after its only CALL and the analysis was aborted
C15_EndAfterCall ==
    /\ pc = "exit"
    /\ log = <<"1;CALL;a;None">>
    /\ line_number = 2
    /\ Len(stack) = 1
    /\ ~artifact.written

(***************************************************************************)
(* Properties of reader, stated on the lines myexit has read                *)
(***************************************************************************)

\* the line has the layout of one of the three record types: a depth that
\* is a non-negative integer, then CALL or RESULT with two more fields, or
\* EXCEPTION with one more field
ValidLine(text) ==
    LET tt == Split(text, ";")
    IN  /\ Len(tt) >= 2
        /\ IsDigits(tt[1])
        /\ \/ tt[2] \in {"CALL", "RESULT"} /\ Len(tt) = 4
           \/ tt[2] = "EXCEPTION" /\ Len(tt) = 3

\* the lines of the log read so far
LinesRead == 1..(IF line_number < Len(log) THEN line_number ELSE Len(log))

\* C16: reader accepts a line only if it has the layout of a record, and
\* every other line read ends the run in the fatal exit of reader, the one
\* that prints the line number and the line
C16_ReaderValidation ==
    \A i \in LinesRead :
        LET r == ParseLine(log[i])
        IN  /\ r.status = "ok" => ValidLine(log[i])
            /\ ~ValidLine(log[i])
               => r.status = "exit" /\ i = line_number /\ pc = "exit"

\* a line of an unknown kind was read and ended the run in the fatal exit
\* of reader
C16_UnknownKindRejected ==
    /\ log = <<"1;IMPORT;a;None">>
    /\ line_number = 1
    /\ ~ValidLine(log[1])
    /\ pc = "exit"

(***************************************************************************)
(* Properties of onModuleEncounter: the other plugins                       *)
(***************************************************************************)

\* the caches query i leaves behind
IgnoredAfter(i) ==
    IF i < Len(answers) THEN answers[i + 1].ignored_before ELSE ignored_modules

ImplicitAfter(i) ==
    IF i < Len(answers) THEN answers[i + 1].implicit_before
    ELSE implicit_imports

\* neither cache decides query a
NoCacheDecides(a) ==
    /\ a.name \notin a.ignored_before
    /\ getTopLevelPackageName(a.name) \notin a.ignored_before
    /\ a.name \notin a.implicit_before

\* query i was decided by the first of the other plugins, in registration
\* order, that does not abstain: its answer is returned and cached and no
\* later plugin was asked; when all abstain, all were asked
FirstOpinionWins(i) ==
    LET a == answers[i]
        opinion(k) == advice[Delegates[k]][a.name]
        first(k) == /\ opinion(k) # "None"
                    /\ \A j \in 1..(k - 1) : opinion(j) = "None"
    IN  /\ (\A k \in 1..Len(Delegates) : opinion(k) = "None")
           => a.consulted = Delegates
        /\ \A k \in 1..Len(Delegates) :
              first(k)
              => /\ a.consulted = SubSeq(Delegates, 1, k)
                 /\ a.rc = opinion(k)
                 /\ a.rc = "KEEP" => a.name \in ImplicitAfter(i)
                 /\ a.rc = "DROP" => a.name \in IgnoredAfter(i)

\* C17: whenever neither cache decides a query, the first of the other
\* plugins that does not abstain decides it
C17_DelegateOrder ==
    \A i \in 1..Len(answers) :
        NoCacheDecides(answers[i]) => FirstOpinionWins(i)

\* C17 for the queries that get as far as the other plugins: not a module of
\* pkg_resources, which is abstained on, and not a module of the test
\* packages, which is dropped, both before any plugin is asked
C17_DelegateOrderPastEasyCases ==
    \A i \in 1..Len(answers) :
        LET a   == answers[i]
            top == getTopLevelPackageName(a.name)
        IN  /\ (/\ NoCacheDecides(a)
                /\ top # "pkg_resources"
                /\ (accept_test \/ top \notin {"pytest", "_pytest", "unittest"}))
               => FirstOpinionWins(i)
            /\ (NoCacheDecides(a) /\ top = "pkg_resources")
               => a.rc = "None" /\ a.consulted = <<>>
            /\ (/\ NoCacheDecides(a)
                /\ ~accept_test /\ top \in {"pytest", "_pytest", "unittest"})
               => a.rc = "DROP" /\ a.consulted = <<>>

\* two other plugins disagree about a module; the one registered first was
\* asked alone and its DROP was returned and cached
C17_Witness ==
    \E i \in 1..Len(answers) :
        LET a == answers[i]
        IN  /\ NoCacheDecides(a)
            /\ Len(Delegates) = 2
            /\ advice[Delegates[1]][a.name] = "DROP"
            /\ advice[Delegates[2]][a.name] = "KEEP"
            /\ a.consulted = <<Delegates[1]>>
            /\ a.rc = "DROP"
            /\ a.name \in IgnoredAfter(i)

(***************************************************************************)
(* Properties of onModuleEncounter: the two caches                          *)
(***************************************************************************)

\* the answer of onModuleEncounter with both caches empty, as the first
\* query of a compilation gets it
FreshAnswer(full_name) ==
    LET top     == getTopLevelPackageName(full_name)
        package == getPackageName(full_name)
        opinions == {k \in 1..Len(Delegates) :
                        advice[Delegates[k]][full_name] # "None"}
    IN  IF top = "pkg_resources" THEN "None"
        ELSE IF ~accept_test /\ top \in {"pytest", "_pytest", "unittest"}
        THEN "DROP"
        ELSE IF opinions # {}
        THEN advice[Delegates[CHOOSE k \in opinions :
                                  \A j \in opinions : k <= j]][full_name]
        ELSE IF \/ full_name = "cv2"
                \/ StartsWith(top, "pywin")
                \/ Hinted(full_name, self_import_calls)
                \/ check_dependents(full_name, self_import_files)
        THEN "KEEP"
        ELSE IF \A k \in 1..Len(active_plugins) :
                    active_plugins[k] # "implicit-imports"
        THEN "exit"
        ELSE IF Len(package) > 0 /\ known_imports.raises THEN "exit"
        ELSE IF Len(package) > 0 /\ full_name \in known_imports.names[package]
        THEN "KEEP"
        ELSE "DROP"

\* C18: the answer to every query is the answer a policy with empty caches
\* gives to that query, whatever was queried before
C18_CachesTransparent ==
    \A i \in 1..Len(answers) :
        answers[i].rc = FreshAnswer(answers[i].name)

\* a module was asked about twice; the second answer came from the ignored
\* cache and is the answer of a policy with empty caches
C18_RepeatedQuery ==
    \E i, j \in 1..Len(answers) :
        /\ i < j /\ answers[i].name = answers[j].name
        /\ answers[j].name \in answers[j].ignored_before
        /\ answers[j].consulted = <<>>
        /\ answers[j].rc = "DROP"
        /\ FreshAnswer(answers[j].name) = "DROP"
        /\ answers[1].rc = FreshAnswer(answers[1].name)

(***************************************************************************)
(* Properties of the log _ourimport writes                                  *)
(***************************************************************************)

\* the number of CALLs still open after the first n lines of the logfile,
\* or -1 when these lines are not the beginning of a well-bracketed stream
RECURSIVE OpenCalls(_)
OpenCalls(n) ==
    IF n = 0 THEN 0
    ELSE LET before == OpenCalls(n - 1)
             r      == ParseLine(logfile[n])
         IN  IF before = -1 \/ r.status # "ok" THEN -1
             ELSE IF r.rec.type = "CALL"
             THEN (IF r.rec.level = before + 1 THEN before + 1 ELSE -1)
             ELSE IF before >= 1 /\ r.rec.level = before THEN before - 1
             ELSE -1

\* C19: the logfile is at any time the beginning of a well-bracketed
\* stream whose open CALLs are the imports under way, so that each CALL of
\* depth d is closed, after complete pairs of depth d + 1, by one RESULT or
\* EXCEPTION of depth d when its import is over, and no CALL is open when
\* the script has ended
C19_ShimWellBracketed ==
    OpenCalls(Len(logfile)) = indentation

\* a script has ended whose import of a module loaded another module that
\* was not found; the module caught the ImportError and the logfile holds
\* two complete pairs
C19_NestedImportErrorLogged ==
    /\ spc = "ended"
    /\ logfile = <<"1;CALL;m;None", "2;CALL;n;None",
                   "2;EXCEPTION;No module named 'n'",
                   "1;RESULT;m;$PYTHONPATH/m.py">>
    /\ OpenCalls(4) = 0
    /\ indentation = 0

(***************************************************************************)
(* Properties of myexit: the artifact after a faulty log                    *)
(***************************************************************************)

\* the log has a line that is no record, a CALL whose name list cannot be
\* parsed, or records that are not well-bracketed
FaultyLog ==
    \/ \E i \in 1..Len(log) : ~ValidLine(log[i])
    \/ \E i \in 1..Len(log) : ParseLine(log[i]).status # "ok"
    \/ ~WellBracketed

\* C21: when the log has a malformed record, an unparsable name list or a
\* structural violation, myexit ends without writing the artifact, and an
\* artifact file of an earlier run is as it was
C21_FaultyLogWritesNothing ==
    (Ended /\ FaultyLog)
    => ~artifact.written /\ artifact \in {NoArtifact, OldArtifact}

\* the analysis of a log with a line of an unknown kind has ended in the
\* fatal exit of reader, and the artifact of an earlier run is as it was
C21_OldArtifactKept ==
    /\ pc = "exit"
    /\ log = <<"1;IMPORT;a;None">>
    /\ FaultyLog
    /\ artifact = OldArtifact

(***************************************************************************)
(* Properties of call_analyzer: what a failed import leaves                 *)
(***************************************************************************)

\* the entries added by the first n activations that ended, in their order
RECURSIVE CallsOfClosings(_), FilesOfClosings(_)
CallsOfClosings(n) ==
    IF n = 0 THEN <<>> ELSE CallsOfClosings(n - 1) \o closings[n].calls

FilesOfClosings(n) ==
    IF n = 0 THEN <<>> ELSE FilesOfClosings(n - 1) \o closings[n].files

\* C22: a CALL closed by an EXCEPTION record adds no call entry and no file
\* entry, and the call and file lists hold, in order, every entry the
\* activations that ended have added, those of its nested calls included
C22_ExceptionAddsNothing ==
    /\ \A i \in 1..Len(closings) :
          (closings[i].closedBy # 0 /\ closings[i].text.type = "EXCEPTION")
          => closings[i].calls = <<>> /\ closings[i].files = <<>>
    /\ import_calls = CallsOfClosings(Len(closings))
    /\ import_files = FilesOfClosings(Len(closings))

\* an import that failed after a nested import succeeded: the entries of
\* the nested import are in the artifact, the failed import added none
C22_Witness ==
    /\ pc = "done"
    /\ log = <<"1;CALL;a;None", "2;CALL;b;('c',)",
               "2;RESULT;a.b;$PYTHONPATH/a/b.py",
               "1;EXCEPTION;No module named a">>
    /\ Len(closings) = 2
    /\ closings[2].text.type = "EXCEPTION" /\ closings[2].calls = <<>>
    /\ closings[1].calls # <<>>
    /\ import_calls = closings[1].calls
    /\ artifact.calls = <<"a.b", "a.b.c">>

(***************************************************************************)
(* Properties of call_analyzer: related names without a name list           *)
(***************************************************************************)

\* the true name of rule c: the resolved name when it is the longer
LongerName(CALLED, RESULT) ==
    IF Len(RESULT) > Len(CALLED) THEN RESULT ELSE CALLED

\* C23: when CALLED is not empty, one of CALLED and the resolved name is a
\* prefix or a suffix of the other, and the CALL has no name list, the
\* entries are the resolved name and, only when it differs from CALLED, the
\* true name, and nothing else
C23_NoListTrueName ==
    \A c \in ResultClosings :
        (/\ PlainSource(c)
         /\ c.call.f2 # ""
         /\ Contained(c.call.f2, c.text.f2)
         /\ NoList(c))
        => Range(NamesOf(c))
           = {c.text.f2}
             \cup (IF LongerName(c.call.f2, c.text.f2) # c.call.f2
                   THEN {LongerName(c.call.f2, c.text.f2)} ELSE {})

\* an import without a name list whose requested name is the resolved name
\* was analyzed and gave the resolved name alone
C23_SameNameAlone ==
    \E c \in ResultClosings :
        /\ PlainSource(c) /\ NoList(c)
        /\ c.call.f2 = "pkg" /\ c.text.f2 = "pkg"
        /\ NamesOf(c) = <<"pkg">>

(***************************************************************************)
(* Properties of the list clean_json returns to myexit                      *)
(***************************************************************************)

\* the list is in Python's str order, without duplicates
StrictlySorted(q) == \A i \in 1..(Len(q) - 1) : StrLess(q[i], q[i + 1])

\* no entry but the wildcard itself starts with the prefix of a wildcard of
\* the list, and no entry X stands beside X.*
Minimal(q) ==
    /\ \A i, j \in 1..Len(q) :
          (i # j /\ EndsWith(q[j], ".*"))
          => ~StartsWith(q[i], SubSeq(q[j], 1, Len(q[j]) - 1))
    /\ \A i \in 1..Len(q) : (q[i] \o ".*") \notin Range(q)

\* C24: the calls list myexit writes, clean_json of the sorted names, is
\* sorted and duplicate-free, has no entry covered by a wildcard of the
\* list, and no entry X when X.* is in the list
C24_ReducedListMinimal ==
    stage >= 1 => StrictlySorted(cleaned_list) /\ Minimal(cleaned_list)

\* a list with two wildcards and entries they cover was reduced to the two
\* wildcards
C24_TwoWildcardsLeft ==
    /\ stage = 1
    /\ netto = <<"a", "a.*", "a.b", "b.*">>
    /\ cleaned_list = <<"a.*", "b.*">>
    /\ StrictlySorted(cleaned_list) /\ Minimal(cleaned_list)

(***************************************************************************)
(* Properties of onModuleEncounter: the messages printed                    *)
(***************************************************************************)

\* the 'keep' messages and the limit notices printed for a plugin
KeepShown(plugin) ==
    {i \in 1..Len(shown) :
        /\ StartsWith(shown[i], "keep ")
        /\ EndsWith(shown[i], " (plugin '" \o plugin \o "')")}

NoticeShown(plugin) ==
    {i \in 1..Len(shown) :
        shown[i] = "... 'keep' msg limit exceeded for '" \o plugin \o "'."}

\* C25: for every other plugin at most msg_limit 'keep' messages are
\* printed, and the notice that the limit is exceeded at most once
C25_KeepMessagesCapped ==
    \A plugin \in OtherPlugins :
        /\ Cardinality(KeepShown(plugin)) <= msg_limit
        /\ Cardinality(NoticeShown(plugin)) <= 1

\* one plugin has kept more modules than the limit: the limit of messages
\* and the notice were printed, and the later modules kept without a message
C25_Witness ==
    /\ msg_count["numpy"] = msg_limit + 2
    /\ Cardinality(KeepShown("numpy")) = msg_limit
    /\ Cardinality(NoticeShown("numpy")) = 1
    /\ Cardinality(implicit_imports) = msg_limit + 2

(***************************************************************************)
(* Properties of the joined logfile: blank lines                            *)
(***************************************************************************)

\* the lines of a logfile that are not blank
NonBlank(lines) == SelectSeq(lines, LAMBDA line : line # "")

\* C26: the final logfile myexit analyzes is the one the logfile without
\* its blank lines gives, so the records read and the artifact are the same,
\* and no line reader is given is a blank line
C26_BlankLinesTransparent ==
    /\ pc # "join" => log = Consolidated(NonBlank(logfile))
    /\ \A i \in LinesRead : log[i] # ""

\* a logfile with a blank line before, inside and after a nested import
\* was analyzed to its end and gave the artifact of the nested import
C26_Witness ==
    /\ pc = "done"
    /\ logfile = <<"1;CALL;a;None", "", "2;CALL;b;('c',)",
                   "2;RESULT;a.b;$PYTHONPATH/a/b.py", "",
                   "1;RESULT;a;$PYTHONPATH/a.py">>
    /\ Len(log) = 4
    /\ line_number = 5
    /\ artifact.written
    /\ artifact.calls = <<"a", "a.b", "a.b.c">>

(***************************************************************************)
(* Properties of the hints from end to end                                  *)
(***************************************************************************)

\* the resolved names call_analyzer has recorded
RecordedNames == {c.text.f2 : c \in {d \in ResultClosings : d.calls # <<>>}}

\* the name is removed by the matplotlib cleanup of __init__
CleanedUp(name) ==
    /\ "matplotlib.backends" \notin Range(artifact.files)
    /\ StartsWith(name, "matplotlib") \/ StartsWith(name, "mpl_toolkits")

\* C27: a plugin initialised from the artifact of a trace, asked with empty
\* caches and no opinion of another plugin about a resolved name the
\* analyzer recorded, answers KEEP, unless the name is of a test package or
\* removed by the matplotlib cleanup
C27_RecordedNamesKept ==
    \A i \in 1..Len(answers) :
        LET a == answers[i]
        IN  (/\ a.ignored_before = {} /\ a.implicit_before = {}
             /\ a.name \in RecordedNames
             /\ getTopLevelPackageName(a.name)
                    \notin {"pytest", "_pytest", "unittest"}
             /\ ~CleanedUp(a.name))
            => a.rc = "KEEP"

\* the module of a nested import was recorded and the plugin keeps it
\* because the hints name it
C27_Witness ==
    /\ log = <<"1;CALL;a;None", "2;CALL;b;('c',)",
               "2;RESULT;a.b;$PYTHONPATH/a/b.py",
               "1;RESULT;a;$PYTHONPATH/a.py">>
    /\ Len(answers) = 1
    /\ answers[1].name = "a.b" /\ answers[1].name \in RecordedNames
    /\ answers[1].rc = "KEEP"
    /\ answers[1].reason = "module is hinted to"


\* C28: when an import through _ourimport returns or raises, an ImportError
\* or another exception, with any imports nested in it, _indentation is
\* back at the value the attempt found and builtins.__import__ is bound to
\* _ourimport
C28_ShimStateRestored ==
    [][Len(frames') < Len(frames)
        => /\ indentation' = entered[Len(entered)]
           /\ import_hook' = "_ourimport"]_vars

\* an import nested in another raised an exception that is no ImportError,
\* it went through both, was caught by the script, and the next import is
\* traced at level 1
C28_Witness ==
    /\ Len(logfile) = 3
    /\ logfile[1] = "1;CALL;m;None"
    /\ logfile[2] = "2;CALL;n;None"
    /\ logfile[3] = "1;CALL;n;None"
    /\ indentation = 1
    /\ import_hook = "_ourimport"


\* the top-level package is one of the test packages
TestPackage(name) ==
    getTopLevelPackageName(name) \in {"pytest", "_pytest", "unittest"}

\* C29: for a module of the packages pytest, _pytest or unittest
\* onModuleEncounter answers DROP and asks no other plugin, whatever the
\* hints and the cache of implicit imports contain
C29_TestPackagesDropped ==
    \A i \in 1..Len(answers) :
        TestPackage(answers[i].name)
        => /\ answers[i].rc = "DROP"
           /\ answers[i].consulted = <<>>

\* pytest.x is dropped although the hints hold pytest.*, the cache of
\* implicit imports holds pytest.x and another plugin would keep it
C29_Witness ==
    \E i \in 1..Len(answers) :
        /\ answers[i].name = "pytest.x"
        /\ Hinted("pytest.x", self_import_calls)
        /\ "pytest.x" \in answers[i].implicit_before
        /\ "pytest.x" \notin answers[i].ignored_before
        /\ \E q \in OtherPlugins : advice[q]["pytest.x"] = "KEEP"
        /\ answers[i].reason = "suppress testing components"


\* the activation that began at line k and ended at line e (0: not ended)
\* was begun inside another activation
Inside(k, e) ==
    \/ \E i \in 1..Len(stack) : stack[i].line < k
    \/ \E d \in Range(closings) : d.line < k /\ e # 0 /\ d.closedBy > e

\* the record last read is the one call_analyzer was entered with when line
\* 183 raised
RaisedOnEntering ==
    /\ pc = "raise"
    /\ stack # <<>>
    /\ line_number \in 1..Len(log)
    /\ ParseLine(log[line_number]).status = "ok"

\* C30: inside a call, call_analyzer recurses into a record only if its
\* kind is CALL; a RESULT or EXCEPTION record, whatever its module name,
\* file or message is, ends the current call and is never the record a
\* nested activation is entered with
C30_RecursesIntoCallsOnly ==
    /\ \A i \in 2..Len(stack) : stack[i].call_list.type = "CALL"
    /\ \A c \in Range(closings) :
           Inside(c.line, c.closedBy) => c.call.type = "CALL"
    /\ ~RaisedOnEntering

\* the CALL of line 2 was recursed into and the RESULT of line 3 ended it
\* inside the call of line 1
C30_NestedCallClosed ==
    /\ Len(log) = 4
    /\ log[2] = "2;CALL;b;('c',)"
    /\ log[3] = "2;RESULT;a.b;$PYTHONPATH/a/b.py"
    /\ \E c \in Range(closings) :
           /\ c.line = 2 /\ c.closedBy = 3
           /\ Inside(c.line, c.closedBy)
           /\ c.call.type = "CALL" /\ c.text.type = "RESULT"

====
